---- MODULE Spec2Model ----
(***************************************************************************)
(* HTTL-S (statejs.js): the reactive watch registry with its deep          *)
(* change-tracking proxies and batched notifications, the template         *)
(* substitution, the for-loop renderer and the recursive if/else           *)
(* resolution of condition-block.                                           *)
(*                                                                         *)
(* The module holds one group of variables per component and one           *)
(* specification per component:                                            *)
(*   SpecWatch   watch(), createDeepProxy(), scheduleCallback()            *)
(*   SpecNotify  the same, from a page that has registered its variables    *)
(*   SpecCond    ConditionBlock: render and the if/else resolution          *)
(*   SpecTpl     parseTemplate over unsafeEval                              *)
(*   SpecLoop    CustomForLoop: render, createRangeArray                    *)
(*   SpecRender  a page with one for-loop or one condition-block            *)
(*   SpecNotifyFair      SpecNotify's page with the event loop going on     *)
(*   SpecPure            unsafeEval, _evaluateCondition, createRangeArray   *)
(*   SpecState           setState over the nodes of a page                  *)
(*   SpecEvalInCallback  mutations made by expressions setState evaluates   *)
(*   SpecCaptured        a for-loop, a condition-block or a state-element   *)
(*   SpecLoopSigned      a for-loop with a negative start or step           *)
(*   SpecInclude         IncludeTemplate: overlapping renders and fetches   *)
(*   SpecIncludeFair     the same, every pending fetch settling             *)
(*   SpecReact           callbacks that assign other watched variables      *)
(***************************************************************************)
EXTENDS Integers, Sequences, FiniteSets, TLC

(***************************************************************************)
(* Bounds of the watch component                                           *)
(***************************************************************************)
\* mutations page code and callbacks attempt in one run
MaxOps == 2
\* watch() calls in one run
MaxWatch == 2
\* objects the page allocates (object and array literals)
MaxObj == 3
\* longest array
MaxLen == 2

(***************************************************************************)
(* Bounds of the condition-block component                                 *)
(***************************************************************************)
\* deepest chain of if/else pairs among the templates
MaxDepth == 3
\* render() calls on one element in one run
MaxRenders == 2
\* let maxIterations = 100
MaxIterations == 100

CNode == 1..(3 * MaxDepth + 1)
CNode0 == 0..(3 * MaxDepth + 1)

(***************************************************************************)
(* Values.  Every JavaScript value of the model is a record [t, v]:         *)
(* undefined, a scalar, a raw object (heap address) or a proxy (proxy id).  *)
(***************************************************************************)
U == [t |-> "u", v |-> 0]
S(n) == [t |-> "s", v |-> n]
O(o) == [t |-> "o", v |-> o]
P(p) == [t |-> "p", v |-> p]

\* typeof x === 'object' && x !== null
IsObject(c) == c.t \in {"o", "p"}

Names == {"a", "b"}
\* the functions and the non-function a page passes as watch()'s second argument
Callables == {"f", "g"}
NotCallable == "notfn"
Key == {0, 1}
Obj == 1..MaxObj
TrigId == 1..MaxWatch
NoObj == [arr |-> FALSE, len |-> 0, p |-> [k \in Key |-> U]]

\* the literals page code writes: {0: 1}, [1], {0: [1]}  (root object first)
LitObj == <<[arr |-> FALSE, len |-> 0, p |-> [k \in Key |-> IF k = 0 THEN S(1) ELSE U]]>>
LitArr == <<[arr |-> TRUE, len |-> 1, p |-> [k \in Key |-> IF k = 0 THEN S(1) ELSE U]]>>
LitNest(base) ==
    <<[arr |-> FALSE, len |-> 0, p |-> [k \in Key |-> IF k = 0 THEN O(base + 2) ELSE U]],
      [arr |-> TRUE, len |-> 1, p |-> [k \in Key |-> IF k = 0 THEN S(1) ELSE U]]>>
Literal(kind, base) ==
    CASE kind = "obj" -> LitObj
      [] kind = "arr" -> LitArr
      [] OTHER -> LitNest(base)
LitKinds == {"obj", "arr", "nest"}
\* what page code assigns: a scalar or a fresh literal
Inputs == {"s2", "arr"}
\* what page code passes as watch()'s default value
Defaults == {"s2", "nest"}

VARIABLES
    heap,               \* the objects: [Obj -> [arr, len, p]]
    nObj,               \* objects allocated so far
    trigs,              \* one record per watch() call: its closure (propName, cb, _value)
    accessor,           \* window[propName]'s accessor: the trigger it closes over, 0 if none
    watchedVars,        \* the Set watchedVars
    proxies,            \* the Proxy objects made so far: [tgt, cb]
    proxyCache,         \* the WeakMap proxyCache: [Obj -> [TrigId -> proxy id or 0]]
    scheduledCallbacks, \* the WeakSet scheduledCallbacks
    microtasks,         \* the microtask queue (closures of scheduleCallback, by trigger)
    activeWatcher,      \* the trigger whose callback is executing, 0 for null
    wpc,                \* "idle", "sync" (page code runs), "drain", "cb", "cbthrow"
    budget,             \* mutations the run may still attempt
    lastOp,             \* the last operation and how it ended
    calls,              \* per trigger: callback invocations since the last unit began
    unitMuts,           \* per trigger: mutations made by the last unit of page code
    unitNotif,          \* ... those that are not array length writes
    cbMuts,             \* per trigger: mutations made by callbacks since the last unit began
    argSnap,            \* per trigger: the value its callback received last
    wrapLog             \* every result of createDeepProxy on an object:
                        \* <<obj, cb, proxy, found in the cache>>

varsW == <<heap, nObj, trigs, accessor, watchedVars, proxies, proxyCache,
           scheduledCallbacks, microtasks, activeWatcher, wpc, budget, lastOp,
           calls, unitMuts, unitNotif, cbMuts, argSnap, wrapLog>>

\* the attributes of an if-condition: expression texts, "null" when absent
NoAttrs == [value |-> "null", eq |-> "null", neq |-> "null", gt |-> "null",
            lt |-> "null", gte |-> "null", lte |-> "null"]

EmptyKids == [q \in CNode0 |-> <<>>]

\* no template child, or an empty one
EmptyTpl ==
    [fam |-> "empty", d |-> 0,
     kind |-> [n \in CNode |-> "none"],
     eid |-> [n \in CNode |-> 0],
     at |-> [n \in CNode |-> NoAttrs],
     kids |-> EmptyKids]

VARIABLES
    globals             \* the watched globals the expressions of a page read

VARIABLES
    corig,              \* condition-block._originalTemplate (EmptyTpl for null or '')
    cdom,               \* its innerHTML: [out: the tokens before the template child,
                        \*                 tpl: the template child's content]
    kids,               \* the container div of _processConditionsRecursive
    cpc,                \* "new", "render", "loop", "pass", "idle"
    snap,               \* ifElements: the static NodeList of the current pass
    idx,                \* position of the for-of in snap
    maxIterations,      \* the pass counter
    lastStep,           \* the last if-node the for-of handled, and the tree before
    outs,               \* per finished render: its output, and the data it used
    gen                 \* assignments to the globals so far

VARIABLES
    lorig,              \* for-loop._originalTemplate (<<>> for null or '')
    ldom,               \* its innerHTML: [out, tpl] as for condition-block
    lattr,              \* its attributes array, start, end, step, valueVar, indexVar
    larr,               \* the global array the array attribute names
    lpc,                \* "new", "render", "iter", "idle"
    lrun,               \* render()'s locals array, start, step, end
    li,                 \* render()'s loop variable i
    lacc,               \* outputHtml
    lits,               \* the iterations of this render: <<i, loopValue>>
    louts,              \* per finished render: its output, iterations and data
    lgen                \* changes of the global array so far

VARIABLES
    tsrc,               \* parseTemplate's argument
    tpc,                \* "run", "done"
    tpos,               \* the match String.replace is at
    tout                \* per segment of tsrc, what takes its place

VARIABLES
    pfn,                \* the function called on its own: "eval", "cond", "range"
    ppc,                \* "call", "loop" (inside createRangeArray), "done"
    pev,                \* unsafeEval's arguments: [e, op, ctx]
    pat,                \* the attributes of the if-condition given to _evaluateCondition
    prg,                \* createRangeArray's start, end, step, i and result
    pret                \* how the call ended: [raised, v]

VARIABLES
    page,               \* the nodes setState can reach, in document order: [cat, id]
    sopt,               \* the options of the setState call
    spc,                \* the block of setState that runs next (0: no call)
    slog                \* the nodes refreshed by the call, in the order of their refresh

VARIABLES
    eorig,              \* StateElement._originalTemplate (<<>>: not set, or empty)
    edom,               \* the state-element's content: [out, tpl]
    epc,                \* "none", "new", "render", "idle"
    eouts,              \* the finished renders: [out, tpl, gen]
    egen                \* the number of changes of the globals

VARIABLES
    iattr,              \* the include-template's attributes: [file, scoped]
    inner,              \* its innerHTML
    shadow,             \* its _shadowRoot's innerHTML (NoShadow: _shadowRoot is null)
    overlay,            \* the loader's overlay is in the document
    ipend,              \* per render() call: "none", "fetch", "text", "done"
    idone               \* the render() calls that have returned, in that order:
                        \* [r, how], how is "nofile", "ok" or "caught"

varsC == <<corig, cdom, kids, cpc, snap, idx, maxIterations, lastStep, outs, gen>>
varsL == <<lorig, ldom, lattr, larr, lpc, lrun, li, lacc, lits, louts, lgen>>
varsT == <<tsrc, tpc, tpos, tout>>
varsP == <<pfn, ppc, pev, pat, prg, pret>>
varsS == <<page, sopt, spc, slog>>
varsE == <<eorig, edom, epc, eouts, egen>>
varsI == <<iattr, inner, shadow, overlay, ipend, idone>>

vars == <<varsW, globals, varsC, varsL, varsT, varsP, varsS, varsE, varsI>>

\* what the actions of one component leave alone
othersW == <<globals, varsC, varsL, varsT, varsP, varsS, varsE, varsI>>
othersC == <<varsW, varsL, varsT, varsP, varsS, varsE, varsI>>
othersL == <<varsW, globals, varsC, varsT, varsP, varsS, varsE, varsI>>
othersT == <<varsW, globals, varsC, varsL, varsP, varsS, varsE, varsI>>
othersP == <<varsW, globals, varsC, varsL, varsT, varsS, varsE, varsI>>
othersS == <<varsW, globals, varsC, varsL, varsT, varsP, varsE, varsI>>
othersE == <<varsW, varsC, varsL, varsT, varsP, varsS, varsI>>
othersI == <<varsW, globals, varsC, varsL, varsT, varsP, varsS, varsE>>

\* an attribute holding an integer: absent, or present with its number
Absent == [set |-> FALSE, n |-> 0]
A(n) == [set |-> TRUE, n |-> n]

NoLoopAttrs ==
    [array |-> "null", start |-> Absent, end |-> Absent, step |-> Absent,
     valueVar |-> "null", indexVar |-> "null"]
\* setState's parameter defaults
NoOptions ==
    [loopid |-> "", stateId |-> "", ifid |-> "", states |-> FALSE,
     showloader |-> TRUE, datajs |-> TRUE, innerhtml |-> TRUE, loops |-> TRUE, dataloops |-> TRUE, templates |-> FALSE,
     conditions |-> TRUE]
NoRun == [array |-> <<>>, start |-> 0, step |-> 1, end |-> 0]

NoStep == [ifEl |-> 0, elseEl |-> 0, res |-> "none", pre |-> EmptyKids]

\* no condition-block on the page
IdleC ==
    /\ corig = EmptyTpl
    /\ cdom = [out |-> <<>>, tpl |-> EmptyTpl]
    /\ kids = EmptyKids
    /\ cpc = "none"
    /\ snap = <<>>
    /\ idx = 0
    /\ maxIterations = 0
    /\ lastStep = NoStep
    /\ outs = <<>>
    /\ gen = 0

\* no for-loop on the page
IdleL ==
    /\ lorig = <<>>
    /\ ldom = [out |-> <<>>, tpl |-> <<>>]
    /\ lattr = NoLoopAttrs
    /\ larr = <<>>
    /\ lpc = "none"
    /\ lrun = NoRun
    /\ li = 0
    /\ lacc = <<>>
    /\ lits = <<>>
    /\ louts = <<>>
    /\ lgen = 0

\* no parseTemplate call
IdleT ==
    /\ tsrc = <<>>
    /\ tpc = "none"
    /\ tpos = 0
    /\ tout = <<>>

\* no function called on its own
IdleP ==
    /\ pfn = "none"
    /\ ppc = "none"
    /\ pev = [e |-> "", op |-> "id", ctx |-> "none"]
    /\ pat = NoAttrs
    /\ prg = [start |-> 0, end |-> 0, step |-> 0, i |-> 0, result |-> <<>>]
    /\ pret = [raised |-> FALSE, v |-> U]

\* no setState call
IdleS ==
    /\ page = <<>>
    /\ sopt = NoOptions
    /\ spc = 0
    /\ slog = <<>>

\* the components other than the watch registry at rest
\* no state-element on the page
IdleE ==
    /\ eorig = <<>>
    /\ edom = [out |-> <<>>, tpl |-> <<>>]
    /\ epc = "none"
    /\ eouts = <<>>
    /\ egen = 0

\* the largest number of render() calls of the include-template in one run
MaxFetch == 3

Content(k, by, v) == [k |-> k, by |-> by, v |-> v]
NoContent == Content("empty", 0, <<>>)
NoShadow == Content("null", 0, <<>>)

IdleI ==
    /\ iattr = [file |-> FALSE, scoped |-> FALSE]
    /\ inner = NoContent
    /\ shadow = NoShadow
    /\ overlay = FALSE
    /\ ipend = [r \in 1..MaxFetch |-> "none"]
    /\ idone = <<>>

IdleRest == IdleP /\ IdleS /\ IdleE /\ IdleI

\* no global the model's expressions read is set
IdleG == globals = [x |-> FALSE, score |-> 70]

NoOp == [kind |-> "none", trig |-> 0, act |-> 0, res |-> "ok", px |-> 0]
ZeroT == [t \in TrigId |-> 0]

\* nothing registered, no page code running
IdleW ==
    /\ heap = [o \in Obj |-> NoObj]
    /\ nObj = 0
    /\ trigs = <<>>
    /\ accessor = [n \in Names |-> 0]
    /\ watchedVars = {}
    /\ proxies = <<>>
    /\ proxyCache = [o \in Obj |-> ZeroT]
    /\ scheduledCallbacks = {}
    /\ microtasks = <<>>
    /\ activeWatcher = 0
    /\ wpc = "idle"
    /\ budget = 1
    /\ lastOp = NoOp
    /\ calls = ZeroT
    /\ unitMuts = ZeroT
    /\ unitNotif = ZeroT
    /\ cbMuts = ZeroT
    /\ argSnap = [t \in TrigId |-> U]
    /\ wrapLog = {}

InitW == IdleW /\ IdleG /\ IdleC /\ IdleL /\ IdleT /\ IdleRest

(***************************************************************************)
(* scheduleCallback                                                        *)
(***************************************************************************)
AlreadyScheduled(cb) == cb \in scheduledCallbacks

SchedSetAfter(cb) == scheduledCallbacks \cup {cb}

\* (mutant) every mutation queues a microtask of its own
QueueAfterUnbatched(cb) == Append(microtasks, cb)

\* (mutant) the closure is put at the head of the microtask queue
QueueAfterAtHead(cb) == IF AlreadyScheduled(cb) THEN microtasks ELSE <<cb>> \o microtasks

QueueAfter(cb) == IF AlreadyScheduled(cb) THEN microtasks ELSE Append(microtasks, cb)

\* (mutant) the set trap has no case for an array's length
QueueAfterLengthScheduled(cb) == Append(microtasks, cb)

\* if (Array.isArray(obj) && prop === 'length') return Reflect.set(...):
\* scheduleCallback is not reached
QueueAfterLength(cb) == microtasks

\* (mutant) the closure never takes cb out of scheduledCallbacks
SchedSetKept(cb) == scheduledCallbacks

\* scheduledCallbacks.delete(cb)
SchedSetAfterRun(cb) == scheduledCallbacks \ {cb}

\* (mutant) the closure runs at once, inside the code that mutates
CheckpointAnytime == wpc \in {"drain", "sync"}

\* queueMicrotask: the closure runs when the code that queued it has ended
Checkpoint == wpc = "drain"

\* (mutant) the guard is tested after scheduleCallback
QueueAfterRejectedLate(cb) == Append(microtasks, cb)

\* if (activeWatcher === callback) throw new Error(...): first statement of the
\* traps and of the setter, nothing is written or scheduled
QueueAfterRejected(cb) == microtasks

\* (mutant) activeWatcher = null after cb(), not in a finally
WatcherAfterCbNoFinally == IF wpc = "cbthrow" THEN activeWatcher ELSE 0

\* try { cb() } finally { activeWatcher = null }
WatcherAfterCb == 0

(***************************************************************************)
(* createDeepProxy                                                         *)
(***************************************************************************)
CacheHit(o, cb) == proxyCache[o][cb] # 0

\* (mutant) the cache is not consulted: a new Proxy on every call
ProxyOfUncached(o, cb) == Len(proxies) + 1

\* the proxy createDeepProxy(o, cb) returns
ProxyOf(o, cb) == IF CacheHit(o, cb) THEN proxyCache[o][cb] ELSE Len(proxies) + 1

ProxiesAfter(o, cb) ==
    IF ProxyOf(o, cb) <= Len(proxies) THEN proxies
    ELSE Append(proxies, [tgt |-> o, cb |-> cb])

CacheAfter(o, cb) == [proxyCache EXCEPT ![o][cb] = ProxyOf(o, cb)]

\* (mutant) no trap and no setter tests for the active watcher
SelfMutationUnguarded(cb) == FALSE

\* the self-mutation test of the set and deleteProperty traps and of the setter
SelfMutation(cb) == activeWatcher = cb


(***************************************************************************)
(* The value a callback receives: trigger = () => cb(propName, _value).     *)
(* A proxy or an object is passed by reference; Deep is what the callback   *)
(* reads through it.                                                       *)
(***************************************************************************)
RECURSIVE DeepCell(_, _)
DeepCell(c, path) ==
    LET o == IF c.t = "p" THEN proxies[c.v].tgt ELSE c.v
    IN  IF IsObject(c)
        THEN {<<path, IF heap[o].arr THEN "array" ELSE "object", heap[o].len>>}
             \cup UNION {DeepCell(heap[o].p[k], Append(path, k)) : k \in Key}
        ELSE {<<path, c.t, c.v>>}

CallbackArg(t) == DeepCell(trigs[t].val, <<>>)

(***************************************************************************)
(* Page code: literals                                                     *)
(***************************************************************************)
LitSize(in) == IF in = "nest" THEN 2 ELSE IF in \in LitKinds THEN 1 ELSE 0

CanAlloc(in) == nObj + LitSize(in) <= MaxObj

InputCell(in) ==
    CASE in = "s2" -> S(2)
      [] in = "undef" -> U
      [] OTHER -> O(nObj + 1)

HeapWith(h, in) ==
    [o \in Obj |->
        IF o > nObj /\ o <= nObj + LitSize(in) THEN Literal(in, nObj)[o - nObj] ELSE h[o]]

(***************************************************************************)
(* How an operation ends                                                   *)
(***************************************************************************)
InCode == wpc \in {"sync", "cb"}

\* a mutation may be attempted: the run's budget of them is not spent
CanMutate == InCode /\ budget > 0

\* an uncaught exception ends the unit of page code, or the callback
ThrowPc == IF wpc = "cb" THEN "cbthrow" ELSE "drain"

Counted(t, notif) ==
    IF wpc = "cb"
    THEN /\ cbMuts' = [cbMuts EXCEPT ![t] = @ + 1]
         /\ UNCHANGED <<unitMuts, unitNotif>>
    ELSE /\ unitMuts' = [unitMuts EXCEPT ![t] = @ + 1]
         /\ unitNotif' = [unitNotif EXCEPT ![t] = @ + (IF notif THEN 1 ELSE 0)]
         /\ UNCHANGED cbMuts

\* the "mutated its own state" Error of a trap or of the setter
ThrowSelf(kind, cb, pid) ==
    /\ lastOp' = [kind |-> kind, trig |-> cb, act |-> activeWatcher, res |-> "self", px |-> pid]
    /\ wpc' = ThrowPc
    /\ budget' = budget - 1
    /\ microtasks' = QueueAfterRejected(cb)
    /\ UNCHANGED <<heap, nObj, trigs, accessor, watchedVars, proxies, proxyCache,
                   scheduledCallbacks, activeWatcher,
                   calls, unitMuts, unitNotif, cbMuts, argSnap, wrapLog>>

\* scheduleCallback(cb)
Schedule(cb) ==
    /\ scheduledCallbacks' = SchedSetAfter(cb)
    /\ microtasks' = QueueAfter(cb)

(***************************************************************************)
(* watch(propName, cb, defaultValue)                                       *)
(***************************************************************************)
\* (mutant) no check of the second parameter
IsFunctionUnchecked(cb) == TRUE

\* typeof cb === 'function'
IsFunction(cb) == cb # NotCallable

Watch(name, cb, in) ==
    /\ wpc = "sync"
    /\ Len(trigs) < MaxWatch
    /\ CanAlloc(in)
    /\ IF ~IsFunction(cb)
       THEN /\ lastOp' = [kind |-> "watch", trig |-> 0, act |-> activeWatcher, res |-> "type", px |-> 0]
            /\ wpc' = ThrowPc
            /\ UNCHANGED <<heap, nObj, trigs, accessor, watchedVars, proxies, proxyCache,
                           wrapLog>>
       ELSE LET t == Len(trigs) + 1
                c == InputCell(in)
                val == IF IsObject(c) THEN P(ProxyOf(c.v, t)) ELSE c
            IN  /\ heap' = HeapWith(heap, in)
                /\ nObj' = nObj + LitSize(in)
                /\ trigs' = Append(trigs, [name |-> name, cb |-> cb, val |-> val])
                /\ proxies' = IF IsObject(c) THEN ProxiesAfter(c.v, t) ELSE proxies
                /\ proxyCache' = IF IsObject(c) THEN CacheAfter(c.v, t) ELSE proxyCache
                /\ wrapLog' = IF IsObject(c) THEN wrapLog \cup {<<c.v, t, ProxyOf(c.v, t), CacheHit(c.v, t)>>}
                              ELSE wrapLog
                /\ accessor' = [accessor EXCEPT ![name] = t]
                /\ watchedVars' = watchedVars \cup {name}
                /\ lastOp' = [kind |-> "watch", trig |-> t, act |-> activeWatcher, res |-> "ok", px |-> 0]
                /\ wpc' = wpc
    /\ UNCHANGED <<scheduledCallbacks, microtasks, activeWatcher, budget,
                   calls, unitMuts, unitNotif, cbMuts, argSnap>>
    /\ UNCHANGED othersW

(***************************************************************************)
(* window[propName] = value: the setter watch() installs                   *)
(***************************************************************************)
RootAssign(name, in) ==
    /\ CanMutate
    /\ accessor[name] # 0
    /\ CanAlloc(in)
    /\ LET t == accessor[name]
           c == InputCell(in)
       IN  IF SelfMutation(t)
           THEN ThrowSelf("assign", t, 0)
           ELSE /\ heap' = HeapWith(heap, in)
                /\ nObj' = nObj + LitSize(in)
                /\ trigs' = [trigs EXCEPT ![t].val =
                                IF IsObject(c) THEN P(ProxyOf(c.v, t)) ELSE c]
                /\ proxies' = IF IsObject(c) THEN ProxiesAfter(c.v, t) ELSE proxies
                /\ proxyCache' = IF IsObject(c) THEN CacheAfter(c.v, t) ELSE proxyCache
                /\ wrapLog' = IF IsObject(c) THEN wrapLog \cup {<<c.v, t, ProxyOf(c.v, t), CacheHit(c.v, t)>>}
                              ELSE wrapLog
                /\ Schedule(t)
                /\ Counted(t, TRUE)
                /\ lastOp' = [kind |-> "assign", trig |-> t, act |-> activeWatcher, res |-> "ok", px |-> 0]
                /\ budget' = budget - 1
                /\ UNCHANGED <<accessor, watchedVars, activeWatcher, wpc, calls, argSnap>>
    /\ UNCHANGED othersW


(***************************************************************************)
(* The traps of a proxy made by createDeepProxy(target, callback)          *)
(***************************************************************************)
\* Reflect.set(obj, prop, value): an index at or past the end grows the array
WriteCell(o, key, c) ==
    [o2 \in Obj |->
        IF o2 # o THEN heap[o2]
        ELSE [heap[o] EXCEPT !.p[key] = c,
                             !.len = IF heap[o].arr /\ key >= @ THEN key + 1 ELSE @]]

\* Reflect.set(obj, 'length', n) on an array: the elements from n on are dropped
WriteLength(o, n) ==
    [heap EXCEPT ![o].len = n,
                 ![o].p = [k \in Key |-> IF k >= n THEN U ELSE heap[o].p[k]]]

\* Reflect.deleteProperty(obj, prop): an array keeps its length
DeleteCell(o, key) == [heap EXCEPT ![o].p[key] = U]

\* the set trap for a property other than an array's length
SetProp(pid, key, in) ==
    /\ CanMutate
    /\ pid \in 1..Len(proxies)
    /\ CanAlloc(in)
    /\ LET o == proxies[pid].tgt
           cb == proxies[pid].cb
       IN  IF SelfMutation(cb)
           THEN ThrowSelf("set", cb, pid)
           ELSE /\ heap' = [o2 \in Obj |->
                              IF o2 = o THEN WriteCell(o, key, InputCell(in))[o]
                              ELSE HeapWith(heap, in)[o2]]
                /\ nObj' = nObj + LitSize(in)
                /\ Schedule(cb)
                /\ Counted(cb, TRUE)
                /\ lastOp' = [kind |-> "set", trig |-> cb, act |-> activeWatcher, res |-> "ok", px |-> pid]
                /\ budget' = budget - 1
                /\ UNCHANGED <<trigs, accessor, watchedVars, proxies, proxyCache,
                               activeWatcher, wpc, calls, argSnap, wrapLog>>
    /\ UNCHANGED othersW

\* the set trap for the length of an array: written, nothing scheduled
SetLength(pid, n) ==
    /\ CanMutate
    /\ pid \in 1..Len(proxies)
    /\ heap[proxies[pid].tgt].arr
    /\ LET o == proxies[pid].tgt
           cb == proxies[pid].cb
       IN  IF SelfMutation(cb)
           THEN ThrowSelf("length", cb, pid)
           ELSE /\ heap' = WriteLength(o, n)
                /\ microtasks' = QueueAfterLength(cb)
                /\ Counted(cb, FALSE)
                /\ lastOp' = [kind |-> "length", trig |-> cb, act |-> activeWatcher, res |-> "ok", px |-> pid]
                /\ budget' = budget - 1
                /\ UNCHANGED <<nObj, trigs, accessor, watchedVars, proxies, proxyCache,
                               scheduledCallbacks,
                               activeWatcher, wpc, calls, argSnap, wrapLog>>
    /\ UNCHANGED othersW

\* the deleteProperty trap
DeleteProp(pid, key) ==
    /\ CanMutate
    /\ pid \in 1..Len(proxies)
    /\ LET o == proxies[pid].tgt
           cb == proxies[pid].cb
       IN  IF SelfMutation(cb)
           THEN ThrowSelf("delete", cb, pid)
           ELSE /\ heap' = DeleteCell(o, key)
                /\ Schedule(cb)
                /\ Counted(cb, TRUE)
                /\ lastOp' = [kind |-> "delete", trig |-> cb, act |-> activeWatcher, res |-> "ok", px |-> pid]
                /\ budget' = budget - 1
                /\ UNCHANGED <<nObj, trigs, accessor, watchedVars, proxies, proxyCache,
                               activeWatcher, wpc, calls, argSnap, wrapLog>>
    /\ UNCHANGED othersW

\* proxy.push(v): Array.prototype.push sets the index (set trap: scheduled),
\* then the length (set trap: length, nothing more)
Push(pid, in) ==
    /\ CanMutate
    /\ pid \in 1..Len(proxies)
    /\ heap[proxies[pid].tgt].arr
    /\ heap[proxies[pid].tgt].len < MaxLen
    /\ in \notin LitKinds
    /\ LET o == proxies[pid].tgt
           cb == proxies[pid].cb
       IN  IF SelfMutation(cb)
           THEN ThrowSelf("push", cb, pid)
           ELSE /\ heap' = WriteCell(o, heap[o].len, InputCell(in))
                /\ Schedule(cb)
                /\ Counted(cb, TRUE)
                /\ lastOp' = [kind |-> "push", trig |-> cb, act |-> activeWatcher, res |-> "ok", px |-> pid]
                /\ budget' = budget - 1
                /\ UNCHANGED <<nObj, trigs, accessor, watchedVars, proxies, proxyCache,
                               activeWatcher, wpc, calls, argSnap, wrapLog>>
    /\ UNCHANGED othersW

\* the get trap: a nested object or array comes back wrapped, with the same callback
GetProp(pid, key) ==
    /\ InCode
    /\ pid \in 1..Len(proxies)
    /\ LET o == proxies[pid].tgt
           cb == proxies[pid].cb
           value == heap[o].p[key]
       IN  /\ IsObject(value)
           /\ proxies' = ProxiesAfter(value.v, cb)
           /\ proxyCache' = CacheAfter(value.v, cb)
           /\ wrapLog' = wrapLog \cup {<<value.v, cb, ProxyOf(value.v, cb), CacheHit(value.v, cb)>>}
    /\ UNCHANGED <<heap, nObj, trigs, accessor, watchedVars, scheduledCallbacks, microtasks,
                   activeWatcher, wpc, budget, lastOp, calls, unitMuts, unitNotif, cbMuts, argSnap>>
    /\ UNCHANGED othersW

(***************************************************************************)
(* The event loop: a unit of page code, then the microtasks it queued       *)
(***************************************************************************)
BeginUnit ==
    /\ wpc = "idle"
    /\ budget > 0
    /\ wpc' = "sync"
    /\ calls' = ZeroT
    /\ unitMuts' = ZeroT
    /\ unitNotif' = ZeroT
    /\ cbMuts' = ZeroT
    /\ lastOp' = NoOp
    /\ UNCHANGED <<heap, nObj, trigs, accessor, watchedVars, proxies, proxyCache,
                   scheduledCallbacks, microtasks, activeWatcher, budget, argSnap, wrapLog>>
    /\ UNCHANGED othersW

EndUnit ==
    /\ wpc = "sync"
    /\ wpc' = "drain"
    /\ UNCHANGED <<heap, nObj, trigs, accessor, watchedVars, proxies, proxyCache,
                   scheduledCallbacks, microtasks, activeWatcher, budget, lastOp,
                   calls, unitMuts, unitNotif, cbMuts, argSnap, wrapLog>>
    /\ UNCHANGED othersW

\* the closure scheduleCallback queued, up to the call of cb
RunMicrotask ==
    /\ Checkpoint
    /\ microtasks # <<>>
    /\ LET cb == Head(microtasks)
       IN  /\ microtasks' = Tail(microtasks)
           /\ scheduledCallbacks' = SchedSetAfterRun(cb)
           /\ activeWatcher' = cb
           /\ calls' = [calls EXCEPT ![cb] = @ + 1]
           /\ argSnap' = [argSnap EXCEPT ![cb] = CallbackArg(cb)]
    /\ wpc' = "cb"
    /\ lastOp' = NoOp
    /\ UNCHANGED <<heap, nObj, trigs, accessor, watchedVars, proxies, proxyCache,
                   budget, unitMuts, unitNotif, cbMuts, wrapLog>>
    /\ UNCHANGED othersW

\* cb returns, or the exception leaves it: finally { activeWatcher = null }
CbEnd ==
    /\ wpc \in {"cb", "cbthrow"}
    /\ activeWatcher' = WatcherAfterCb
    /\ wpc' = "drain"
    /\ UNCHANGED <<heap, nObj, trigs, accessor, watchedVars, proxies, proxyCache,
                   scheduledCallbacks, microtasks, budget, lastOp,
                   calls, unitMuts, unitNotif, cbMuts, argSnap, wrapLog>>
    /\ UNCHANGED othersW

DrainDone ==
    /\ wpc = "drain"
    /\ microtasks = <<>>
    /\ wpc' = "idle"
    /\ UNCHANGED <<heap, nObj, trigs, accessor, watchedVars, proxies, proxyCache,
                   scheduledCallbacks, microtasks, activeWatcher, budget, lastOp,
                   calls, unitMuts, unitNotif, cbMuts, argSnap, wrapLog>>
    /\ UNCHANGED othersW

NextW ==
    \/ BeginUnit
    \/ EndUnit
    \/ RunMicrotask
    \/ CbEnd
    \/ DrainDone
    \/ \E name \in Names, cb \in Callables \cup {NotCallable}, in \in Defaults :
          Watch(name, cb, in)
    \/ \E name \in Names, in \in Inputs : RootAssign(name, in)
    \/ \E pid \in 1..Len(proxies), key \in Key, in \in Inputs : SetProp(pid, key, in)
    \/ \E pid \in 1..Len(proxies), n \in 0..MaxLen : SetLength(pid, n)
    \/ \E pid \in 1..Len(proxies), key \in Key : DeleteProp(pid, key)
    \/ \E pid \in 1..Len(proxies), in \in Inputs : Push(pid, in)
    \/ \E pid \in 1..Len(proxies), key \in Key : GetProp(pid, key)

SpecWatch == InitW /\ [][NextW]_vars

(***************************************************************************)
(* The page after its registrations                                        *)
(*     watch('a', f, {0: [1]});  watch('b', g, 2)                          *)
(* and the mutations it and its callbacks then make.                       *)
(***************************************************************************)
InitNotify ==
    /\ heap = [o \in Obj |-> IF o <= 2 THEN LitNest(0)[o] ELSE NoObj]
    /\ nObj = 2
    /\ trigs = <<[name |-> "a", cb |-> "f", val |-> P(1)],
                 [name |-> "b", cb |-> "g", val |-> S(2)]>>
    /\ accessor = [n \in Names |-> IF n = "a" THEN 1 ELSE 2]
    /\ watchedVars = {"a", "b"}
    /\ proxies = <<[tgt |-> 1, cb |-> 1]>>
    /\ proxyCache = [o \in Obj |-> [t \in TrigId |-> IF o = 1 /\ t = 1 THEN 1 ELSE 0]]
    /\ scheduledCallbacks = {}
    /\ microtasks = <<>>
    /\ activeWatcher = 0
    /\ wpc = "idle"
    /\ budget = MaxOps
    /\ lastOp = NoOp
    /\ calls = ZeroT
    /\ unitMuts = ZeroT
    /\ unitNotif = ZeroT
    /\ cbMuts = ZeroT
    /\ argSnap = [t \in TrigId |-> U]
    /\ wrapLog = {<<1, 1, 1, FALSE>>}
    /\ IdleG /\ IdleC /\ IdleL /\ IdleT /\ IdleRest

NextNotify ==
    \/ BeginUnit
    \/ EndUnit
    \/ RunMicrotask
    \/ CbEnd
    \/ DrainDone
    \/ \E name \in Names, in \in Inputs : RootAssign(name, in)
    \/ \E pid \in 1..Len(proxies), key \in Key, in \in Inputs : SetProp(pid, key, in)
    \/ \E pid \in 1..Len(proxies), n \in 0..MaxLen : SetLength(pid, n)
    \/ \E pid \in 1..Len(proxies), key \in Key : DeleteProp(pid, key)
    \/ \E pid \in 1..Len(proxies), in \in Inputs : Push(pid, in)
    \/ \E pid \in 1..Len(proxies), key \in Key : GetProp(pid, key)

SpecNotify == InitNotify /\ [][NextNotify]_vars

\* The same page, its code and its callbacks writing scalars only; the event
\* loop goes on: a unit of page code ends, the microtask queue is run until it
\* is empty, and a callback returns or throws.
NextLive ==
    \/ BeginUnit
    \/ EndUnit
    \/ RunMicrotask
    \/ CbEnd
    \/ DrainDone
    \/ \E name \in Names : RootAssign(name, "s2")
    \/ \E pid \in 1..Len(proxies), key \in Key : SetProp(pid, key, "s2")
    \/ \E pid \in 1..Len(proxies), key \in Key : DeleteProp(pid, key)
    \/ \E pid \in 1..Len(proxies) : Push(pid, "s2")
    \/ \E pid \in 1..Len(proxies), key \in Key : GetProp(pid, key)

SpecNotifyFair ==
    /\ InitNotify
    /\ [][NextLive]_vars
    /\ WF_vars(EndUnit)
    /\ WF_vars(RunMicrotask)
    /\ WF_vars(CbEnd)
    /\ WF_vars(DrainDone)


(***************************************************************************)
(* The same page with callbacks that assign watched variables: a callback   *)
(* assigns its own variable, another one, or none, and returns.  Page code  *)
(* makes MaxOps assignments at most.                                        *)
(***************************************************************************)
\* the scalars assigned
Assigned == {S(1), S(2)}

\* page code: name = v
PageAssign(name, v) ==
    /\ wpc = "sync"
    /\ budget > 0
    /\ LET t == accessor[name]
       IN  /\ trigs' = [trigs EXCEPT ![t].val = v]
           /\ Schedule(t)
           /\ lastOp' = [kind |-> "assign", trig |-> t, act |-> activeWatcher,
                         res |-> "ok", px |-> 0]
    /\ budget' = budget - 1
    /\ UNCHANGED <<heap, nObj, accessor, watchedVars, proxies, proxyCache, activeWatcher,
                   wpc, calls, unitMuts, unitNotif, cbMuts, argSnap, wrapLog>>
    /\ UNCHANGED othersW

\* the closure scheduleCallback queued, up to the call of cb
ReactRun ==
    /\ Checkpoint
    /\ microtasks # <<>>
    /\ LET cb == Head(microtasks)
       IN  /\ microtasks' = Tail(microtasks)
           /\ scheduledCallbacks' = SchedSetAfterRun(cb)
           /\ activeWatcher' = cb
    /\ wpc' = "cb"
    /\ lastOp' = NoOp
    /\ UNCHANGED <<heap, nObj, trigs, accessor, watchedVars, proxies, proxyCache,
                   budget, calls, unitMuts, unitNotif, cbMuts, argSnap, wrapLog>>
    /\ UNCHANGED othersW

\* the callback's body and its end: it assigns the variable of trigger t
\* (t = 0: it assigns nothing), then finally { activeWatcher = null }
ReactBody(t, v) ==
    /\ wpc = "cb"
    /\ IF t = 0
       THEN UNCHANGED <<trigs, scheduledCallbacks, microtasks, lastOp>>
       ELSE IF SelfMutation(t)
       THEN /\ lastOp' = [kind |-> "assign", trig |-> t, act |-> activeWatcher,
                          res |-> "self", px |-> 0]
            /\ microtasks' = QueueAfterRejected(t)
            /\ UNCHANGED <<trigs, scheduledCallbacks>>
       ELSE /\ trigs' = [trigs EXCEPT ![t].val = v]
            /\ Schedule(t)
            /\ lastOp' = [kind |-> "assign", trig |-> t, act |-> activeWatcher,
                          res |-> "ok", px |-> 0]
    /\ activeWatcher' = WatcherAfterCb
    /\ wpc' = "drain"
    /\ UNCHANGED <<heap, nObj, accessor, watchedVars, proxies, proxyCache, budget,
                   calls, unitMuts, unitNotif, cbMuts, argSnap, wrapLog>>
    /\ UNCHANGED othersW

NextReact ==
    \/ BeginUnit
    \/ \E name \in Names, v \in Assigned : PageAssign(name, v)
    \/ EndUnit
    \/ ReactRun
    \/ \E t \in 0..MaxWatch, v \in Assigned : ReactBody(t, v)
    \/ DrainDone

\* the event loop goes on: queued closures run, callbacks return
SpecReact ==
    /\ InitNotify
    /\ [][NextReact]_vars
    /\ WF_vars(EndUnit)
    /\ WF_vars(ReactRun)
    /\ WF_vars(\E t \in 0..MaxWatch, v \in Assigned : ReactBody(t, v))
    /\ WF_vars(DrainDone)

\* C36 (as stated): page code makes finitely many mutations; then either a
\* self-mutation error is raised at some time, or from some time on no
\* notification is pending and no callback runs.
C36_NoSilentInfiniteLoop ==
    \/ <>(lastOp.res = "self")
    \/ <>[](scheduledCallbacks = {} /\ microtasks = <<>> /\ wpc \in {"idle", "drain"})


(***************************************************************************)
(* Claims about the watch registry and the change-tracking proxy           *)
(***************************************************************************)
MutationKinds == {"set", "delete", "assign", "push", "length"}

\* C1 (as stated): once the microtasks of a unit of page code have run, every
\* trigger the unit mutated N >= 1 times (writes, deletes, pushes, length
\* writes, root assignments), and no callback mutated since, had its callback
\* invoked exactly once, with the value as it is after the N mutations; and
\* no callback is invoked while the unit still runs.
C1_AnyMutationNotifiesOnce ==
    /\ wpc = "sync" => \A t \in TrigId : calls[t] = 0
    /\ wpc = "idle" =>
          \A t \in 1..Len(trigs) :
              (unitMuts[t] >= 1 /\ cbMuts[t] = 0)
                  => (calls[t] = 1 /\ argSnap[t] = CallbackArg(t))

\* C1 (amended): the same, for the triggers the unit mutated at least once
\* other than by writing an array's length.
C1_BatchedOnce ==
    /\ wpc = "sync" => \A t \in TrigId : calls[t] = 0
    /\ wpc = "idle" =>
          \A t \in 1..Len(trigs) :
              (unitNotif[t] >= 1 /\ cbMuts[t] = 0)
                  => (calls[t] = 1 /\ argSnap[t] = CallbackArg(t))

\* C1 witness: a unit made two notifying mutations of one variable, whose
\* callback then ran once.
C1_Witness ==
    /\ wpc = "idle"
    /\ \E t \in 1..Len(trigs) : unitNotif[t] >= 2 /\ cbMuts[t] = 0 /\ calls[t] = 1

\* C2: a mutation attempted while the callback of the proxy (or of the
\* accessor) it goes through is the active watcher ends with the self-mutation
\* error, and the running callback is never scheduled again by its own run.
C2_SelfMutationRaises ==
    /\ (lastOp.kind \in MutationKinds /\ lastOp.act # 0 /\ lastOp.act = lastOp.trig)
          => lastOp.res = "self"
    /\ activeWatcher # 0 =>
          /\ activeWatcher \notin scheduledCallbacks
          /\ \A i \in 1..Len(microtasks) : microtasks[i] # activeWatcher

\* C2 witness: a callback tried a root assignment, and (another run) a nested
\* write, of its own variable.
C2_Witness ==
    /\ lastOp.res = "self"
    /\ lastOp.kind \in {"set", "delete", "assign"}
    /\ lastOp.act = lastOp.trig

\* C3: createDeepProxy returns one proxy per (object, callback): all the
\* wrappers ever returned for the same pair are the same proxy.
C3_IdentityStable ==
    \A x \in wrapLog, y \in wrapLog :
        (x[1] = y[1] /\ x[2] = y[2]) => x[3] = y[3]

\* C3 witness: a nested object was read a second time off its wrapper, after
\* a mutation, and came from the cache.
C3_Witness ==
    /\ \E x \in wrapLog : x[4] /\ x[1] = 2
    /\ budget < MaxOps

\* C4 (as stated): a watch() call for a name already tracked changes neither
\* the accessor installed under the name nor the callback and stored value of
\* its registration.
C4_SecondWatchIsNoOp ==
    [][\A n \in watchedVars :
          /\ accessor'[n] = accessor[n]
          /\ lastOp'.kind = "watch" => trigs'[accessor'[n]] = trigs[accessor[n]]]_vars

\* C13: a watch() call whose second parameter is not a function throws a
\* TypeError and changes nothing: no accessor is installed, the name is not
\* added to the tracked names, no trigger or wrapper is created and nothing is
\* scheduled.
C13_NotCallableRejected ==
    [][(\E name \in Names, in \in Defaults : Watch(name, NotCallable, in)) =>
          /\ lastOp'.kind = "watch" /\ lastOp'.res = "type"
          /\ wpc' = "drain"
          /\ UNCHANGED <<heap, nObj, trigs, accessor, watchedVars, proxies, proxyCache,
                         scheduledCallbacks, microtasks, activeWatcher>>]_vars

\* a watch() call was rejected after another one had registered a name
C13_Witness ==
    /\ lastOp.kind = "watch" /\ lastOp.res = "type"
    /\ watchedVars # {}
    /\ wpc = "drain"

\* C16: no mutation invokes a callback synchronously: the step of a write, a
\* delete, a push or a root assignment leaves every callback uninvoked and
\* the active-watcher slot as it was, and a callback is only ever invoked
\* from the microtask queue, after the code that mutated has ended.
C16_NeverSynchronous ==
    [][/\ budget' < budget => (calls' = calls /\ activeWatcher' = activeWatcher)
       /\ \A t \in TrigId :
             calls'[t] > calls[t] =>
                 (wpc = "drain" /\ microtasks # <<>> /\ Head(microtasks) = t)]_vars

\* page code mutated a, ended, and a's callback is running
C16_Witness ==
    /\ wpc = "cb" /\ activeWatcher = 1
    /\ unitMuts[1] >= 1 /\ calls[1] = 1

\* C17: a write to an array's length through a wrapper performs the write and
\* leaves the notification schedule as it was; when the length writes are the
\* only mutations of a variable in a unit of page code, and no callback
\* mutates it, its callback is not invoked.
C17_LengthWriteSchedulesNothing ==
    [][/\ (lastOp'.kind = "length" /\ lastOp'.res = "ok" /\ budget' < budget) =>
             LET o == proxies[lastOp'.px].tgt
             IN  /\ heap' = WriteLength(o, heap'[o].len)
                 /\ UNCHANGED <<scheduledCallbacks, microtasks, calls>>
       /\ wpc' = "idle" =>
             \A t \in 1..Len(trigs') :
                 (unitMuts'[t] >= 1 /\ unitNotif'[t] = 0 /\ cbMuts'[t] = 0)
                     => calls'[t] = 0]_vars

\* a unit of page code that only wrote the length of a's array has ended and
\* its microtasks have run
C17_Witness ==
    /\ wpc = "idle"
    /\ lastOp.kind = "length" /\ lastOp.res = "ok"
    /\ unitMuts[1] >= 1 /\ unitNotif[1] = 0 /\ calls[1] = 0
    /\ heap[2].len = 0

\* C18: no notification is lost: after every property write (other than of an
\* array's length), delete or push through a wrapper that stems from a watched
\* variable, at any depth, and after every root assignment, the callback of
\* that variable is invoked at some later time.
C18_NoNotificationLost ==
    \A t \in TrigId :
        (lastOp.kind \in {"set", "delete", "push", "assign"}
            /\ lastOp.res = "ok" /\ lastOp.trig = t)
          ~> (wpc = "cb" /\ activeWatcher = t)

\* the callback of a runs after a write through the wrapper of the nested array
C18_Witness ==
    /\ wpc = "cb" /\ activeWatcher = 1
    /\ calls[1] = 1
    /\ \E e \in wrapLog : e[1] = 2 /\ e[2] = 1
    /\ heap[2].p[0] = S(2)

\* the place of trigger t in the queue q, 0 when it is not queued
QueuedAt(q, t) ==
    IF \E i \in 1..Len(q) : q[i] = t
    THEN CHOOSE i \in 1..Len(q) : q[i] = t
    ELSE 0

\* callbacks are invoked from the head of the queue, which is only ever
\* appended to, and only while no callback is executing
QueueIsFifo ==
    /\ \A t \in TrigId :
          calls'[t] > calls[t] =>
              /\ wpc = "drain" /\ activeWatcher = 0
              /\ microtasks # <<>> /\ Head(microtasks) = t
              /\ microtasks' = Tail(microtasks)
    /\ microtasks' # microtasks =>
          \/ microtasks # <<>> /\ microtasks' = Tail(microtasks)
          \/ \E t \in TrigId : microtasks' = Append(microtasks, t)

C21_GuardResetAfterCallback ==
    [][/\ wpc' \notin {"cb", "cbthrow"} => activeWatcher' = 0
       /\ (wpc \in {"cb", "cbthrow"} /\ wpc' = "drain") =>
             activeWatcher \notin scheduledCallbacks'
       /\ (budget' < budget /\ lastOp'.kind \in {"set", "delete", "push", "assign"}
              /\ lastOp'.act # lastOp'.trig) =>
             /\ lastOp'.res = "ok"
             /\ lastOp'.trig \in scheduledCallbacks'
             /\ \E i \in 1..Len(microtasks') : microtasks'[i] = lastOp'.trig]_vars

\* a's callback ran after the write a[1] = 2 of one unit of page code; the
\* delete of a[0] in the next unit was accepted and scheduled it again
C21_Witness ==
    /\ wpc = "sync" /\ activeWatcher = 0
    /\ heap[1].p[1] = S(2) /\ heap[1].p[0] = U
    /\ unitMuts[1] = 1
    /\ lastOp.kind = "delete" /\ lastOp.res = "ok"
    /\ 1 \in scheduledCallbacks

\* C22: a property write, a delete, a push or a root assignment that the
\* self-mutation guard rejects leaves the objects, the stored values of the
\* watched variables and the wrappers as they were, and schedules nothing.
C22_RejectedMutationChangesNothing ==
    [][(budget' < budget /\ lastOp'.res = "self") =>
          /\ lastOp'.act # 0 /\ lastOp'.act = lastOp'.trig
          /\ UNCHANGED <<heap, nObj, trigs, proxies, proxyCache,
                         scheduledCallbacks, microtasks>>]_vars

\* a's callback tried to delete a property of a
C22_Witness ==
    /\ lastOp.res = "self" /\ lastOp.kind = "delete"
    /\ lastOp.act = 1
    /\ wpc = "cbthrow"
    /\ microtasks = <<>> /\ scheduledCallbacks = {}

(***************************************************************************)
(* Expressions and unsafeEval.  An attribute or placeholder holds the text  *)
(* of a JavaScript expression; the model knows these texts.  "null" is an   *)
(* absent attribute, "" an empty one.                                      *)
(***************************************************************************)
Num(n) == [t |-> "n", v |-> n]
Bool(b) == [t |-> "b", v |-> IF b THEN 1 ELSE 0]

\* the watched globals the expressions of a page read
Envs == {[x |-> TRUE, score |-> 85], [x |-> FALSE, score |-> 95], [x |-> FALSE, score |-> 70]}

NumLits == {"0", "1", "3", "5", "80", "90"}
NumOf(e) ==
    CASE e = "0" -> 0 [] e = "1" -> 1 [] e = "3" -> 3 [] e = "5" -> 5
      [] e = "80" -> 80 [] e = "90" -> 90

\* a string (array elements), an object whose toString throws, NaN
Str(id) == [t |-> "str", v |-> id]
Weird == [t |-> "obj", v |-> 0]
NaN == [t |-> "nan", v |-> 0]

\* the context argument of unsafeEval: {} or {loopValue, loopIndex}
NoContext == [has |-> FALSE, nul |-> FALSE, loopValue |-> U, loopIndex |-> 0]
LoopContext(v, i) == [has |-> TRUE, nul |-> FALSE, loopValue |-> v, loopIndex |-> i]
\* unsafeEval(expression, null): Object.keys(null) is a TypeError
NullContext == [has |-> FALSE, nul |-> TRUE, loopValue |-> U, loopIndex |-> 0]

\* expression texts whose evaluation throws (a ReferenceError for a name that
\* is neither in the context nor a global, a TypeError, a SyntaxError)
Throwing == {"nope", "boom", "("}

\* the value of a name or literal
ValueOfName(e, ctx, env) ==
    CASE ctx.has /\ e = "loopValue" -> ctx.loopValue
      [] ctx.has /\ e = "loopIndex" -> Num(ctx.loopIndex)
      [] e \in NumLits -> Num(NumOf(e))
      [] e = "true" -> Bool(TRUE)
      [] e = "false" -> Bool(FALSE)
      [] e = "x" -> Bool(env.x)
      [] e = "score" -> Num(env.score)
      [] e = "weird" -> Weird
      [] OTHER -> U

\* v + 1
PlusOne(v) ==
    CASE v.t \in {"n", "b"} -> Num(v.v + 1)
      [] v.t = "str" -> [t |-> "str1", v |-> v.v]
      [] OTHER -> NaN

\* what unsafeEval's try block does with the expression e (op "id": a name or
\* literal) or e + 1 (op "inc"): Object.keys(context) and the call of the new
\* Function end in a value, or throw
RawEval(e, op, ctx, env) ==
    LET v == ValueOfName(e, ctx, env)
    IN  IF ctx.nul THEN [thrown |-> TRUE, v |-> U]
        ELSE IF e \in Throwing /\ ~(ctx.has /\ e \in {"loopValue", "loopIndex"})
        THEN [thrown |-> TRUE, v |-> U]
        ELSE IF op = "inc" /\ v.t = "obj" THEN [thrown |-> TRUE, v |-> U]
        ELSE [thrown |-> FALSE, v |-> IF op = "inc" THEN PlusOne(v) ELSE v]

\* (mutant) no catch around the evaluation
OutcomeUncaught(raw) == [raised |-> raw.thrown, v |-> raw.v]

\* try { ... return fn(...values) } catch (e) { ...; return undefined }
Outcome(raw) == [raised |-> FALSE, v |-> IF raw.thrown THEN U ELSE raw.v]

\* unsafeEval(expression, context)
UnsafeEvalIn(e, op, ctx, env) == Outcome(RawEval(e, op, ctx, env)).v

\* unsafeEval(expression)
UnsafeEval(e, env) == UnsafeEvalIn(e, "id", NoContext, env)

\* Boolean(value)
Truthy(v) == (v.t = "b" /\ v.v = 1) \/ (v.t = "n" /\ v.v # 0) \/ v.t = "obj"

\* a relational comparison of numbers and booleans; undefined is NaN, never
\* related, and the conversion of the object throws into the catch
Related(a, b, op) ==
    /\ a.t \in {"n", "b"} /\ b.t \in {"n", "b"}
    /\ CASE op = "gt" -> a.v > b.v
         [] op = "lt" -> a.v < b.v
         [] op = "gte" -> a.v >= b.v
         [] OTHER -> a.v <= b.v

\* (mutant) the operands are tested in the order lte, gte, lt, gt, neq, eq
EvaluateConditionBackwards(at, env) ==
    LET value == UnsafeEval(at.value, env)
    IN  IF at.lte # "null" THEN Related(value, UnsafeEval(at.lte, env), "lte")
        ELSE IF at.gte # "null" THEN Related(value, UnsafeEval(at.gte, env), "gte")
        ELSE IF at.lt # "null" THEN Related(value, UnsafeEval(at.lt, env), "lt")
        ELSE IF at.gt # "null" THEN Related(value, UnsafeEval(at.gt, env), "gt")
        ELSE IF at.neq # "null" THEN value # UnsafeEval(at.neq, env)
        ELSE IF at.eq # "null" THEN value = UnsafeEval(at.eq, env)
        ELSE Truthy(value)

\* ConditionBlock._evaluateCondition
EvaluateCondition(at, env) ==
    LET value == UnsafeEval(at.value, env)
    IN  IF at.eq # "null" THEN value = UnsafeEval(at.eq, env)
        ELSE IF at.neq # "null" THEN value # UnsafeEval(at.neq, env)
        ELSE IF at.gt # "null" THEN Related(value, UnsafeEval(at.gt, env), "gt")
        ELSE IF at.lt # "null" THEN Related(value, UnsafeEval(at.lt, env), "lt")
        ELSE IF at.gte # "null" THEN Related(value, UnsafeEval(at.gte, env), "gte")
        ELSE IF at.lte # "null" THEN Related(value, UnsafeEval(at.lte, env), "lte")
        ELSE Truthy(value)

(***************************************************************************)
(* The DOM of a condition-block template.  Node 0 is the container div of   *)
(* _processConditionsRecursive; kids gives every node its child list; a     *)
(* node in no child list is detached (removed, or never used).              *)
(***************************************************************************)
InSeq(x, sq) == \E i \in 1..Len(sq) : sq[i] = x

\* node.parentNode: -1 for null
ParentOf(k, n) ==
    IF \E q \in CNode0 : InSeq(n, k[q])
    THEN CHOOSE q \in CNode0 : InSeq(n, k[q])
    ELSE -1

\* the ancestors of n, nearest first
RECURSIVE Ancestors(_, _)
Ancestors(k, n) ==
    LET q == ParentOf(k, n)
    IN  IF n = 0 \/ q = -1 THEN <<>> ELSE <<q>> \o Ancestors(k, q)

\* a.contains(b)
Contains(k, a, b) == a = b \/ InSeq(a, Ancestors(k, b))

\* the descendants of n in document order (querySelectorAll('*'))
RECURSIVE Descendants(_, _)
RECURSIVE DescOfList(_, _)
Descendants(k, n) == DescOfList(k, k[n])

DescOfList(k, sq) ==
    IF sq = <<>> THEN <<>>
    ELSE <<Head(sq)>> \o Descendants(k, Head(sq)) \o DescOfList(k, Tail(sq))

First(sq) == IF sq = <<>> THEN 0 ELSE Head(sq)

\* Element.remove()
RemoveNode(k, n) ==
    [q \in CNode0 |-> SelectSeq(k[q], LAMBDA c : c # n)]

RECURSIVE Splice(_, _, _)
Splice(sq, n, ins) ==
    IF sq = <<>> THEN <<>>
    ELSE IF Head(sq) = n THEN ins \o Tail(sq)
    ELSE <<Head(sq)>> \o Splice(Tail(sq), n, ins)

\* (mutant) the node goes with its children
UnwrapNodeDropping(k, n) ==
    [q \in CNode0 |-> IF q = n THEN <<>> ELSE SelectSeq(k[q], LAMBDA c : c # n)]

\* while (n.firstChild) fragment.appendChild(n.firstChild);
\* n.parentNode.replaceChild(fragment, n)
UnwrapNode(k, n) ==
    [q \in CNode0 |->
        IF q = n THEN <<>>
        ELSE IF InSeq(n, k[q]) THEN Splice(k[q], n, k[n])
        ELSE k[q]]

\* Element.closest('else-condition') seen from an if-node: its nearest
\* else-condition ancestor, 0 for null
ClosestElse(t, k, n) ==
    First(SelectSeq(Ancestors(k, n), LAMBDA q : q # 0 /\ t.kind[q] = "else"))

\* container.querySelectorAll('if-condition')
IfElements(t, k) == SelectSeq(Descendants(k, 0), LAMBDA q : t.kind[q] = "if")

\* container.querySelector('if-condition[elseid="id"]'), 0 for null
QueryIf(t, k, id) ==
    First(SelectSeq(Descendants(k, 0), LAMBDA q : t.kind[q] = "if" /\ t.eid[q] = id))

\* container.querySelector('else-condition[elseid="id"]'), 0 for null
QueryElse(t, k, id) ==
    First(SelectSeq(Descendants(k, 0), LAMBDA q : t.kind[q] = "else" /\ t.eid[q] = id))

\* (mutant) an if-node inside an else-node of the container is always skipped
ShouldSkipInsideElse(t, k, ifEl) ==
    ClosestElse(t, k, ifEl) # 0 /\ Contains(k, 0, ClosestElse(t, k, ifEl))

\* the skip test at the head of the for-of body
ShouldSkip(t, k, ifEl) ==
    LET parentElse == ClosestElse(t, k, ifEl)
        correspondingIf == QueryIf(t, k, t.eid[parentElse])
    IN  /\ parentElse # 0
        /\ Contains(k, 0, parentElse)
        /\ correspondingIf # 0
        /\ correspondingIf # ifEl
        /\ ~Contains(k, ifEl, correspondingIf)

\* (mutant) the else-node is the first one of the container with the elseid
FindElseAnywhere(t, k, ifEl) ==
    IF t.eid[ifEl] = 0 THEN 0 ELSE QueryElse(t, k, t.eid[ifEl])

\* the else-node of an if-node: a sibling first, then anywhere in the
\* container; 0 for null (eid 0 is no elseid attribute, or an empty one)
FindElse(t, k, ifEl) ==
    LET elseid == t.eid[ifEl]
        parent == ParentOf(k, ifEl)
        sib == IF parent = -1 THEN 0
               ELSE First(SelectSeq(k[parent],
                       LAMBDA q : t.kind[q] = "else" /\ t.eid[q] = elseid))
    IN  IF elseid = 0 THEN 0
        ELSE IF sib # 0 THEN sib
        ELSE QueryElse(t, k, elseid)

\* !valueAttr
NoValue(at) == at.value \in {"null", ""}

\* ifEl.parentNode.replaceChild on a parentless if-node is a TypeError
ProcessThrows(t, k, ifEl, env) ==
    /\ ~NoValue(t.at[ifEl])
    /\ EvaluateCondition(t.at[ifEl], env)
    /\ ParentOf(k, ifEl) = -1

\* (mutant) a true condition leaves the else-node where it is
ProcessKeepingElse(t, k, ifEl, env) ==
    LET elseEl == FindElse(t, k, ifEl)
    IN  IF NoValue(t.at[ifEl]) THEN RemoveNode(k, ifEl)
        ELSE IF EvaluateCondition(t.at[ifEl], env) THEN UnwrapNode(k, ifEl)
        ELSE IF elseEl # 0 THEN UnwrapNode(RemoveNode(k, ifEl), elseEl)
        ELSE RemoveNode(k, ifEl)

\* ConditionBlock._processSingleIfElse: the child lists afterwards
ProcessSingleIfElse(t, k, ifEl, env) ==
    LET elseEl == FindElse(t, k, ifEl)
    IN  IF NoValue(t.at[ifEl]) THEN RemoveNode(k, ifEl)
        ELSE IF EvaluateCondition(t.at[ifEl], env)
        THEN UnwrapNode(IF elseEl # 0 THEN RemoveNode(k, elseEl) ELSE k, ifEl)
        ELSE IF elseEl # 0 THEN UnwrapNode(RemoveNode(k, ifEl), elseEl)
        ELSE RemoveNode(k, ifEl)

\* innerHTML, as a sequence of tokens: an open tag, the children, a close tag
Tok(tag, id) == [tag |-> tag, id |-> id]

RECURSIVE Ser(_, _, _)
RECURSIVE SerList(_, _, _)
Ser(t, k, n) ==
    IF t.kind[n] = "text" THEN <<Tok("text", n)>>
    ELSE <<Tok(t.kind[n], n)>> \o SerList(t, k, k[n]) \o <<Tok("close", n)>>

SerList(t, k, sq) ==
    IF sq = <<>> THEN <<>>
    ELSE Ser(t, k, Head(sq)) \o SerList(t, k, Tail(sq))

InnerHTML(t, k) == SerList(t, k, k[0])

\* the two error texts render() puts in place of the content
ErrNoTemplate == <<Tok("err", 0)>>
ErrThrown == <<Tok("err", 1)>>

(***************************************************************************)
(* The templates a condition-block is given.  A template is the parsed      *)
(* innerHTML of the <template ifid> child: per node its tag (kind), elseid  *)
(* (eid, 0 for none), attributes (at) and children.                         *)
(***************************************************************************)
IsEmpty(t) == t.kids[0] = <<>>

AT(v) == [NoAttrs EXCEPT !.value = v]
Gte(v, c) == [NoAttrs EXCEPT !.value = v, !.gte = c]

CondChoices == {AT("x"), Gte("score", "90"), Gte("score", "80")}

\* a chain of d pairs: pair j is if-node 3j-2 (holding text 3j-1) and else-node
\* 3j, which holds pair j+1, or text 3d+1 when j = d; fwd puts each if-node
\* before its else-node
ChainPair(j, fwd) == IF fwd THEN <<3 * j - 2, 3 * j>> ELSE <<3 * j, 3 * j - 2>>

Chain(d, cs, fwd) ==
    [fam |-> "chain", d |-> d,
     kind |-> [n \in CNode |->
                 IF n > 3 * d + 1 THEN "none"
                 ELSE IF n = 3 * d + 1 THEN "text"
                 ELSE IF n % 3 = 1 THEN "if"
                 ELSE IF n % 3 = 2 THEN "text" ELSE "else"],
     eid |-> [n \in CNode |->
                 IF n > 3 * d THEN 0
                 ELSE IF n % 3 = 1 THEN (n + 2) \div 3
                 ELSE IF n % 3 = 0 THEN n \div 3 ELSE 0],
     at |-> [n \in CNode |->
                 IF n <= 3 * d /\ n % 3 = 1 THEN cs[(n + 2) \div 3] ELSE NoAttrs],
     kids |-> [q \in CNode0 |->
                 IF q = 0 THEN ChainPair(1, fwd)
                 ELSE IF q > 3 * d THEN <<>>
                 ELSE IF q % 3 = 1 THEN <<q + 1>>
                 ELSE IF q % 3 = 2 THEN <<>>
                 ELSE IF q = 3 * d THEN <<q + 1>>
                 ELSE ChainPair(q \div 3 + 1, fwd)]]

Chains ==
    {Chain(d, cs, fwd) : d \in 1..MaxDepth, cs \in [1..MaxDepth -> CondChoices],
                         fwd \in BOOLEAN}

\* one if-node (2, holding text 3) and one else-node (5, holding text 6) with
\* the same elseid among texts 1, 4, 7; wrapper 8 is a neutral element
Placements == {"after", "before", "ifdeep", "elsedeep", "elseinif", "ifinelse", "noelse"}

PairKids(pl) ==
    [q \in CNode0 |->
        CASE q = 0 -> (CASE pl = "after" -> <<1, 2, 4, 5, 7>>
                         [] pl = "before" -> <<1, 5, 4, 2, 7>>
                         [] pl = "ifdeep" -> <<1, 8, 4, 5, 7>>
                         [] pl = "elsedeep" -> <<1, 2, 4, 8, 7>>
                         [] pl = "elseinif" -> <<1, 2, 4, 7>>
                         [] pl = "ifinelse" -> <<1, 4, 5, 7>>
                         [] OTHER -> <<1, 2, 4, 7>>)
          [] q = 2 -> IF pl = "elseinif" THEN <<3, 5>> ELSE <<3>>
          [] q = 5 -> IF pl = "noelse" THEN <<>>
                      ELSE IF pl = "ifinelse" THEN <<6, 2>> ELSE <<6>>
          [] q = 8 -> (CASE pl = "ifdeep" -> <<2>> [] pl = "elsedeep" -> <<5>>
                         [] OTHER -> <<>>)
          [] OTHER -> <<>>]

Pair(pl, c) ==
    [fam |-> "pair", d |-> 1,
     kind |-> [n \in CNode |->
                 CASE n \in {1, 3, 4, 6, 7} -> "text"
                   [] n = 2 -> "if" [] n = 5 -> "else" [] n = 8 -> "elem"
                   [] OTHER -> "none"],
     eid |-> [n \in CNode |-> IF n \in {2, 5} THEN 1 ELSE 0],
     at |-> [n \in CNode |-> IF n = 2 THEN c ELSE NoAttrs],
     kids |-> PairKids(pl)]

Pairs == {Pair(pl, c) : pl \in Placements, c \in CondChoices \cup {NoAttrs, AT("")}}

\* a template given by the kinds, elseids and child lists of its nodes; every
\* if-node carries the attributes c
Tree(fam, ks, es, kd, c) ==
    [fam |-> fam, d |-> 1,
     kind |-> [n \in CNode |-> IF n \in DOMAIN ks THEN ks[n] ELSE "none"],
     eid |-> [n \in CNode |-> IF n \in DOMAIN es THEN es[n] ELSE 0],
     at |-> [n \in CNode |-> IF n \in DOMAIN ks /\ ks[n] = "if" THEN c ELSE NoAttrs],
     kids |-> [q \in CNode0 |-> IF q \in DOMAIN kd THEN kd[q] ELSE <<>>]]

\* else-node 1 (elseid 1) holds if-node 2 (elseid 2), else-node 4 (elseid 2)
\* holds if-node 5 (elseid 1): each if-node lies in the else-node of the other
Cycle(c) ==
    Tree("cycle",
         1 :> "else" @@ 2 :> "if" @@ 3 :> "text" @@ 4 :> "else" @@ 5 :> "if" @@ 6 :> "text",
         1 :> 1 @@ 2 :> 2 @@ 4 :> 2 @@ 5 :> 1,
         0 :> <<1, 4>> @@ 1 :> <<2>> @@ 2 :> <<3>> @@ 4 :> <<5>> @@ 5 :> <<6>>,
         c)

\* three nodes with elseid 1: if-node 2 and else-node 4 are siblings inside
\* element 8, else-node 5 stands before or after element 8
Dup(first, c) ==
    Tree("dup",
         2 :> "if" @@ 3 :> "text" @@ 4 :> "else" @@ 7 :> "text" @@ 5 :> "else"
             @@ 6 :> "text" @@ 8 :> "elem",
         2 :> 1 @@ 4 :> 1 @@ 5 :> 1,
         0 :> (IF first THEN <<5, 8>> ELSE <<8, 5>>) @@ 8 :> <<2, 4>> @@ 2 :> <<3>>
             @@ 4 :> <<7>> @@ 5 :> <<6>>,
         c)

\* else-node 5 (elseid 1) with no if-node of its elseid, beside if-node 2
\* (elseid 2) that has no else-node
Orphan(c) ==
    Tree("orphan",
         1 :> "text" @@ 2 :> "if" @@ 3 :> "text" @@ 5 :> "else" @@ 6 :> "text",
         2 :> 2 @@ 5 :> 1,
         0 :> <<1, 2, 5>> @@ 2 :> <<3>> @@ 5 :> <<6>>,
         c)

\* else-node 1 (elseid 1) holds if-node 2, which carries elseid 1 itself;
\* if-node 5 (elseid 1) follows else-node 1 as its sibling
Shared(c) ==
    Tree("shared",
         1 :> "else" @@ 2 :> "if" @@ 3 :> "text" @@ 5 :> "if" @@ 6 :> "text",
         1 :> 1 @@ 2 :> 1 @@ 5 :> 1,
         0 :> <<1, 5>> @@ 1 :> <<2>> @@ 2 :> <<3>> @@ 5 :> <<6>>,
         c)

\* else-node 1 (elseid 1) holds if-node 2 (no elseid), which holds if-node 5
\* (elseid 1)
Inner(c) ==
    Tree("inner",
         1 :> "else" @@ 2 :> "if" @@ 5 :> "if" @@ 6 :> "text",
         1 :> 1 @@ 5 :> 1,
         0 :> <<1>> @@ 1 :> <<2>> @@ 2 :> <<5>> @@ 5 :> <<6>>,
         c)

\* if-node 1 (no elseid) holds if-node 2 (elseid 2); else-node 5 (elseid 2)
\* follows if-node 1
Discarded(c) ==
    Tree("discarded",
         1 :> "if" @@ 2 :> "if" @@ 3 :> "text" @@ 5 :> "else" @@ 6 :> "text",
         2 :> 2 @@ 5 :> 2,
         0 :> <<1, 5>> @@ 1 :> <<2>> @@ 2 :> <<3>> @@ 5 :> <<6>>,
         c)

Odd ==
    {Cycle(c) : c \in CondChoices}
        \cup {Shared(AT("x")), Inner(AT("x")), Discarded(AT("x"))}
        \cup {Dup(f, c) : f \in BOOLEAN, c \in CondChoices}
        \cup {Orphan(c) : c \in CondChoices}

CondTemplates == Chains \cup Pairs \cup Odd \cup {EmptyTpl}

(***************************************************************************)
(* ConditionBlock: connectedCallback, render, _processConditionsRecursive.  *)
(* The templates of the model hold no {{...}} placeholder, so               *)
(* parseTemplate(_originalTemplate) is the template itself.                 *)
(***************************************************************************)
InitCond ==
    /\ corig = EmptyTpl
    /\ cdom \in {[out |-> <<>>, tpl |-> t] : t \in CondTemplates}
    /\ globals \in Envs
    /\ kids = EmptyKids
    /\ cpc = "new"
    /\ snap = <<>>
    /\ idx = 0
    /\ maxIterations = 0
    /\ lastStep = NoStep
    /\ outs = <<>>
    /\ gen = 0
    /\ IdleW /\ IdleL /\ IdleT /\ IdleRest

\* _storeTemplate: the first non-empty template child content, for good
StoreTemplate(orig, dom) == IF ~IsEmpty(orig) THEN orig ELSE dom.tpl

\* this.innerHTML = ...: a finished render
Finished(out, tpl) ==
    /\ cdom' = [out |-> out, tpl |-> tpl]
    /\ outs' = Append(outs, [out |-> out, tpl |-> tpl, gen |-> gen, env |-> globals])
    /\ kids' = EmptyKids
    /\ snap' = <<>>
    /\ idx' = 0
    /\ lastStep' = NoStep
    /\ cpc' = "idle"

\* connectedCallback, up to its call of render()
CondConnect ==
    /\ cpc = "new"
    /\ corig' = StoreTemplate(corig, cdom)
    /\ cpc' = "render"
    /\ UNCHANGED <<cdom, globals, kids, snap, idx, maxIterations, lastStep, outs, gen>>
    /\ UNCHANGED othersC

\* rerender(), or a setState() that reaches the element
CondRerender ==
    /\ cpc = "idle"
    /\ Len(outs) < MaxRenders
    /\ cpc' = "render"
    /\ UNCHANGED <<corig, cdom, globals, kids, snap, idx, maxIterations, lastStep, outs, gen>>
    /\ UNCHANGED othersC

\* page code assigns one of the globals between two renders
SetData ==
    /\ cpc = "idle"
    /\ gen < Len(outs)
    /\ Len(outs) < MaxRenders
    /\ globals' \in Envs \ {globals}
    /\ gen' = gen + 1
    /\ UNCHANGED <<corig, cdom, kids, cpc, snap, idx, maxIterations, lastStep, outs>>
    /\ UNCHANGED othersC

\* render() up to the while loop of _processConditionsRecursive
RenderBegin ==
    /\ cpc = "render"
    /\ LET o == StoreTemplate(corig, cdom)
       IN  /\ corig' = o
           /\ IF IsEmpty(o)
              THEN /\ Finished(ErrNoTemplate, EmptyTpl)
                   /\ UNCHANGED maxIterations
              ELSE /\ kids' = o.kids
                   /\ maxIterations' = MaxIterations
                   /\ cpc' = "loop"
                   /\ UNCHANGED <<cdom, snap, idx, lastStep, outs>>
    /\ UNCHANGED <<globals, gen>>
    /\ UNCHANGED othersC

\* (mutant) the while statement without its counter
MorePassesUncounted == IfElements(corig, kids) # <<>>

\* container.querySelector('if-condition') && maxIterations-- > 0
MorePasses == IfElements(corig, kids) # <<>> /\ maxIterations > 0

CountedDown == IF IfElements(corig, kids) # <<>> THEN maxIterations - 1 ELSE maxIterations

\* the while condition holds: querySelectorAll takes the snapshot
PassBegin ==
    /\ cpc = "loop"
    /\ MorePasses
    /\ maxIterations' = CountedDown
    /\ snap' = IfElements(corig, kids)
    /\ idx' = 1
    /\ cpc' = "pass"
    /\ UNCHANGED <<corig, cdom, globals, kids, lastStep, outs, gen>>
    /\ UNCHANGED othersC

\* one turn of the for-of
PassStep ==
    /\ cpc = "pass"
    /\ idx <= Len(snap)
    /\ LET ifEl == snap[idx]
       IN  IF ShouldSkip(corig, kids, ifEl)
           THEN /\ lastStep' = [ifEl |-> ifEl, elseEl |-> 0, res |-> "skip", pre |-> kids]
                /\ idx' = idx + 1
                /\ UNCHANGED <<cdom, kids, cpc, snap, outs>>
           ELSE IF ProcessThrows(corig, kids, ifEl, globals)
           THEN Finished(ErrThrown, EmptyTpl)
           ELSE /\ kids' = ProcessSingleIfElse(corig, kids, ifEl, globals)
                /\ lastStep' = [ifEl |-> ifEl,
                                elseEl |-> FindElse(corig, kids, ifEl),
                                res |-> IF NoValue(corig.at[ifEl]) THEN "novalue"
                                        ELSE IF EvaluateCondition(corig.at[ifEl], globals)
                                        THEN "true" ELSE "false",
                                pre |-> kids]
                /\ idx' = idx + 1
                /\ UNCHANGED <<cdom, cpc, snap, outs>>
    /\ UNCHANGED <<corig, globals, maxIterations, gen>>
    /\ UNCHANGED othersC

\* the for-of is over
PassEnd ==
    /\ cpc = "pass"
    /\ idx > Len(snap)
    /\ cpc' = "loop"
    /\ UNCHANGED <<corig, cdom, globals, kids, snap, idx, maxIterations, lastStep, outs, gen>>
    /\ UNCHANGED othersC

\* the while condition fails: innerHTML = html + templateCopy
RenderEnd ==
    /\ cpc = "loop"
    /\ ~MorePasses
    /\ maxIterations' = CountedDown
    /\ Finished(InnerHTML(corig, kids), corig)
    /\ UNCHANGED <<corig, globals, gen>>
    /\ UNCHANGED othersC

NextCond ==
    \/ CondConnect
    \/ CondRerender
    \/ SetData
    \/ RenderBegin
    \/ PassBegin
    \/ PassStep
    \/ PassEnd
    \/ RenderEnd

SpecCond == InitCond /\ [][NextCond]_vars

(***************************************************************************)
(* Claims about the if/else resolution                                      *)
(***************************************************************************)
\* the levels of a chain whose condition holds under the globals e
ChainHits(t, e) == {j \in 1..t.d : EvaluateCondition(t.at[3 * j - 2], e)}

Least(ns) == CHOOSE n \in ns : \A m \in ns : n <= m

\* the text of the first if-node whose condition holds, else of the last else-node
ChainExpect(t, e) ==
    IF ChainHits(t, e) = {} THEN <<Tok("text", 3 * t.d + 1)>>
    ELSE <<Tok("text", 3 * Least(ChainHits(t, e)) - 1)>>

RECURSIVE ExpectNode(_, _, _, _, _)
RECURSIVE ExpectList(_, _, _, _, _)
ExpectNode(t, pre, n, kept, dropped) ==
    IF n = dropped THEN <<>>
    ELSE IF n = kept THEN ExpectList(t, pre, pre[n], kept, dropped)
    ELSE IF t.kind[n] = "text" THEN <<Tok("text", n)>>
    ELSE <<Tok(t.kind[n], n)>> \o ExpectList(t, pre, pre[n], kept, dropped)
            \o <<Tok("close", n)>>

ExpectList(t, pre, sq, kept, dropped) ==
    IF sq = <<>> THEN <<>>
    ELSE ExpectNode(t, pre, Head(sq), kept, dropped)
            \o ExpectList(t, pre, Tail(sq), kept, dropped)

\* the container, and the top of every detached tree
Roots(pre) == {0} \cup {n \in CNode : corig.kind[n] # "none" /\ ParentOf(pre, n) = -1}

\* C7: resolving one if-node that has a matched else-node keeps one branch:
\* condition true, the if-node gives way in place to its children and the
\* else-node goes with all its content; condition false, the if-node goes with
\* all its content and the else-node gives way in place to its children.
C7_OneBranchKept ==
    (lastStep.res \in {"true", "false"} /\ lastStep.elseEl # 0) =>
        LET kept == IF lastStep.res = "true" THEN lastStep.ifEl ELSE lastStep.elseEl
            dropped == IF lastStep.res = "true" THEN lastStep.elseEl ELSE lastStep.ifEl
        IN  \A r \in Roots(lastStep.pre) \ {kept, dropped} :
                SerList(corig, kids, kids[r])
                    = ExpectList(corig, lastStep.pre, lastStep.pre[r], kept, dropped)

\* a false if-node whose else-node was found away from its siblings
C7_Witness ==
    /\ lastStep.res = "false"
    /\ lastStep.elseEl # 0
    /\ ParentOf(lastStep.pre, lastStep.ifEl) # ParentOf(lastStep.pre, lastStep.elseEl)
    /\ \E i \in 1..Len(kids[0]) : kids[0][i] = 6

\* C15 (as stated): the output of a render whose if-node has no value
\* attribute, or an empty one, holds neither the children of the if-node nor
\* the children of the else-node with its elseid.
C15_NoValueResolvesToEmpty ==
    \A r \in 1..Len(outs) :
        LET t == outs[r].tpl
        IN  (t.fam = "pair" /\ NoValue(t.at[2])) =>
                /\ ~InSeq(Tok("text", 3), outs[r].out)
                /\ ~InSeq(Tok("text", 6), outs[r].out)

\* C24: the resolution loop ends for every tree, the trees whose elseids form
\* a cycle or are duplicated included: a pass starts only while the counter,
\* which starts at 100 and loses one with every pass, is positive, and a pass
\* visits each if-node of its snapshot once.
C24_AtMostHundredPasses ==
    [][/\ maxIterations' \in -1..MaxIterations
       /\ (cpc = "loop" /\ cpc' = "pass") =>
             (maxIterations > 0 /\ maxIterations' = maxIterations - 1)
       /\ (cpc = "pass" /\ cpc' = "pass") =>
             (idx <= Len(snap) /\ idx' = idx + 1 /\ snap' = snap)]_vars

\* the render of two if-nodes that wait for each other has ended after 100
\* passes, both still in the tree
C24_Witness ==
    /\ cpc = "idle"
    /\ corig.fam = "cycle"
    /\ maxIterations = -1
    /\ Len(outs) >= 1
    /\ InSeq(Tok("if", 2), outs[Len(outs)].out)

\* the attached else-nodes carrying the elseid of ifEl
ElsesOf(t, k, ifEl) ==
    {q \in CNode : /\ t.kind[q] = "else" /\ t.eid[q] = t.eid[ifEl]
                   /\ t.eid[ifEl] # 0 /\ ParentOf(k, q) # -1}

\* those among them that are children of the parent of ifEl
SiblingElsesOf(t, k, ifEl) ==
    {q \in ElsesOf(t, k, ifEl) : ParentOf(k, q) = ParentOf(k, ifEl)}

\* C28: when an if-node with a value is resolved and one of the else-nodes
\* carrying its elseid is a child of its parent, the else-node resolved with
\* it is such a sibling, and every other else-node with that elseid outside
\* the resolved one stays attached with its own children.
C28_SiblingElseResolved ==
    [][(cpc = "pass" /\ idx' = idx + 1 /\ lastStep'.res \in {"true", "false"}
          /\ SiblingElsesOf(corig, kids, lastStep'.ifEl) # {}) =>
          /\ lastStep'.elseEl \in SiblingElsesOf(corig, kids, lastStep'.ifEl)
          /\ ParentOf(kids', lastStep'.elseEl) = -1
          /\ \A q \in ElsesOf(corig, kids, lastStep'.ifEl) :
                (q # lastStep'.elseEl /\ ~Contains(kids, lastStep'.elseEl, q)
                   /\ ~Contains(kids, q, lastStep'.ifEl)) =>
                    (ParentOf(kids', q) = ParentOf(kids, q) /\ kids'[q] = kids[q])]_vars

\* if-node 2 is resolved with its sibling else-node 4 although else-node 5
\* comes first in the document; else-node 5 is still there with its text
C28_Witness ==
    /\ cpc = "pass" /\ corig.fam = "dup" /\ corig.kids[0] = <<5, 8>>
    /\ lastStep.ifEl = 2 /\ lastStep.elseEl = 4 /\ lastStep.res = "false"
    /\ lastStep.pre[0] = <<5, 8>> /\ lastStep.pre[8] = <<2, 4>>
    /\ kids[0] = <<5, 8>> /\ kids[5] = <<6>> /\ kids[8] = <<7>>

\* C29 (as stated): an if-node that lies inside an else-node of the container
\* is not resolved while another if-node of the container carries the elseid
\* of that else-node.
C29_NestedWaitsForReferencingIf ==
    [][(cpc = "pass" /\ idx' = idx + 1 /\ lastStep'.res # "skip") =>
          ~\E e \in CNode, a \in CNode :
              /\ corig.kind[e] = "else" /\ corig.eid[e] # 0
              /\ e # lastStep'.ifEl /\ Contains(kids, e, lastStep'.ifEl)
              /\ Contains(kids, 0, e)
              /\ corig.kind[a] = "if" /\ a # lastStep'.ifEl
              /\ corig.eid[a] = corig.eid[e] /\ Contains(kids, 0, a)]_vars

\* the if-nodes of a template
IfNodes(t) == {n \in CNode : t.kind[n] = "if"}

\* the if-nodes x waits for: those that name an else-node in which x lies
WaitedFor(t, x) ==
    {y \in IfNodes(t) \ {x} :
        /\ t.eid[y] # 0
        /\ \E e \in CNode : /\ t.kind[e] = "else" /\ t.eid[e] = t.eid[y]
                             /\ e # x /\ Contains(t.kids, e, x)}

RECURSIVE WaitClosure(_, _, _)
WaitClosure(t, set, n) ==
    IF n = 0 THEN set
    ELSE WaitClosure(t, set \cup UNION {WaitedFor(t, y) : y \in set}, n - 1)

\* no if-node waits, directly or through others, for itself
NoWaitCycle(t) ==
    \A x \in IfNodes(t) :
        x \notin WaitClosure(t, WaitedFor(t, x), Cardinality(IfNodes(t)))

C39_DiscardedIfHasNoEffect ==
    [][(cpc = "pass" /\ idx' = idx + 1 /\ lastStep'.res # "skip"
          /\ ~Contains(kids, 0, lastStep'.ifEl)) =>
          \A e \in CNode :
              (corig.kind[e] = "else" /\ Contains(kids, 0, e)) => Contains(kids', 0, e)]_vars

\* C25 (as stated): a render whose resolution loop stopped at the ceiling of
\* 100 passes with if-nodes left puts an error marker in the element, not the
\* partly resolved markup.
C25_CeilingGivesErrorMarker ==
    (cpc = "idle" /\ maxIterations < 0) =>
        /\ cdom.out # <<>>
        /\ cdom.out[1].tag = "err"
\* C26 (as stated): the content a render leaves when its resolution loop
\* ended below the ceiling holds no if-node and no else-node.
C26_NoConditionNodeLeft ==
    (cpc = "idle" /\ maxIterations >= 0) =>
        \A j \in 1..Len(cdom.out) : cdom.out[j].tag \notin {"if", "else"}

(***************************************************************************)
(* Template strings.  A string is a sequence of segments: a word of static  *)
(* text, a local placeholder ${e} or ${e + 1}, a global placeholder {{e}}   *)
(* or {{e + 1}}, or the string form of a value.                             *)
(***************************************************************************)
\* longest string given to parseTemplate
MaxSeg == 3

Text(w) == [k |-> "text", w |-> w, op |-> "", n |-> 0]
Local(e, op) == [k |-> "local", w |-> e, op |-> op, n |-> 0]
Global(e, op) == [k |-> "global", w |-> e, op |-> op, n |-> 0]

\* String(result)
StringOf(v) == [k |-> "val", w |-> v.t, op |-> "", n |-> v.v]

\* the replace callback of parseTemplate on one segment
Substitute(seg, env) ==
    LET result == UnsafeEvalIn(seg.w, seg.op, NoContext, env)
    IN  IF seg.k # "global" THEN <<seg>>
        ELSE IF result.t = "obj" THEN <<seg>>
        ELSE IF result # U THEN <<StringOf(result)>>
        ELSE <<>>

\* parseTemplate(template)
RECURSIVE ParseTemplate(_, _)
ParseTemplate(segs, env) ==
    IF segs = <<>> THEN <<>>
    ELSE Substitute(Head(segs), env) \o ParseTemplate(Tail(segs), env)

TplExprs == {"x", "score", "undef", "nope", "boom", "weird"}
TplSegs == {Text("a"), Global("score", "inc")} \cup {Global(e, "id") : e \in TplExprs}
RECURSIVE SeqsUpTo(_, _)
SeqsUpTo(n, alphabet) ==
    IF n = 0 THEN {<<>>}
    ELSE SeqsUpTo(n - 1, alphabet)
            \cup {Append(sq, a) : sq \in {q \in SeqsUpTo(n - 1, alphabet) : Len(q) = n - 1},
                                  a \in alphabet}

InitTpl ==
    /\ tsrc \in SeqsUpTo(MaxSeg, TplSegs) \ {<<>>}
    /\ globals \in Envs
    /\ tpc = "run"
    /\ tpos = 1
    /\ tout = <<>>
    /\ IdleW /\ IdleC /\ IdleL /\ IdleRest

\* String.replace reaches the next segment
ReplaceStep ==
    /\ tpc = "run"
    /\ tpos <= Len(tsrc)
    /\ tout' = Append(tout, Substitute(tsrc[tpos], globals))
    /\ tpos' = tpos + 1
    /\ UNCHANGED <<tsrc, tpc>>
    /\ UNCHANGED othersT

\* String.replace returns
ReplaceDone ==
    /\ tpc = "run"
    /\ tpos > Len(tsrc)
    /\ tpc' = "done"
    /\ UNCHANGED <<tsrc, tpos, tout>>
    /\ UNCHANGED othersT

NextTpl == ReplaceStep \/ ReplaceDone

SpecTpl == InitTpl /\ [][NextTpl]_vars

(***************************************************************************)
(* Claims about the global interpolation                                    *)
(***************************************************************************)
\* C10 (as stated): when parseTemplate returns, every {{...}} placeholder whose
\* expression throws during evaluation stands in the output as its original
\* literal text, and every other placeholder of the string is substituted by
\* the string form of its value (nothing for undefined).
C10_ThrowingPlaceholderStaysLiteral ==
    tpc = "done" =>
        \A j \in 1..Len(tsrc) :
            LET seg == tsrc[j]
                v == UnsafeEvalIn(seg.w, seg.op, NoContext, globals)
            IN  seg.k = "global" =>
                    IF seg.w \in Throwing THEN tout[j] = <<seg>>
                    ELSE v.t # "obj" =>
                            tout[j] = IF v = U THEN <<>> ELSE <<StringOf(v)>>


(***************************************************************************)
(* CustomForLoop: connectedCallback, render.                                *)
(***************************************************************************)
\* longest global array
MaxArr == 3
\* largest end attribute
MaxEnd == 5
\* a for statement whose index runs downwards is followed to index -MaxBelow
MaxBelow == 3

\* createRangeArray(start, end, step)
RECURSIVE CreateRangeArray(_, _, _)
CreateRangeArray(start, end, step) ==
    IF step > 0 THEN (IF start <= end
                      THEN <<Num(start)>> \o CreateRangeArray(start + step, end, step)
                      ELSE <<>>)
    ELSE IF step < 0 THEN (IF start >= end
                           THEN <<Num(start)>> \o CreateRangeArray(start + step, end, step)
                           ELSE <<>>)
    ELSE <<>>

\* parseInt(this.getAttribute(name)) || dflt
ParseIntOr(a, dflt) == IF a.set /\ a.n # 0 THEN a.n ELSE dflt

\* this.getAttribute('valueVar') || 'value', this.getAttribute('indexVar') || 'index'
ValueVar(at) == IF at.valueVar = "null" THEN "value" ELSE at.valueVar
IndexVar(at) == IF at.indexVar = "null" THEN "index" ELSE at.indexVar

\* unsafeEval(arrayAttr) || []
EvalArray(at, arr) == IF at.array = "fruits" THEN arr ELSE <<>>

\* array[i]
ArrAt(array, i) == IF i >= 0 /\ i < Len(array) THEN array[i + 1] ELSE U

Min(a, b) == IF a <= b THEN a ELSE b

\* render()'s array, start, step and end
RunOf(at, arr) ==
    LET array == EvalArray(at, arr)
        start == ParseIntOr(at.start, 0)
        step == ParseIntOr(at.step, 1)
        end == IF at.end.set THEN at.end.n ELSE Len(array)
    IN  [array |-> IF Len(array) = 0 /\ end > start
                   THEN CreateRangeArray(start, end - 1, step) ELSE array,
         start |-> start, step |-> step, end |-> end]

\* template.replace(new RegExp('\\b' + name + '\\b', 'g'), repl) on one segment:
\* a whole word of text, or the name inside a placeholder
ReplaceWord(seg, name, repl) ==
    IF seg.k \in {"text", "local", "global"} /\ seg.w = name
    THEN [seg EXCEPT !.w = repl] ELSE seg

\* expr.replace(/__loopValue__/g, 'loopValue').replace(/__loopIndex__/g, 'loopIndex')
EvalExpr(e) ==
    IF e = "__loopValue__" THEN "loopValue"
    ELSE IF e = "__loopIndex__" THEN "loopIndex" ELSE e

\* one segment of iterHtml
IterSeg(seg, at, loopValue, loopIndex, env) ==
    LET marked == ReplaceWord(ReplaceWord(seg, ValueVar(at), "__loopValue__"),
                              IndexVar(at), "__loopIndex__")
        result == UnsafeEvalIn(EvalExpr(marked.w), marked.op,
                               LoopContext(loopValue, loopIndex), env)
    IN  IF marked.k # "local" THEN <<marked>>
        ELSE IF result # U THEN <<StringOf(result)>>
        ELSE <<>>

\* iterHtml
RECURSIVE IterHtml(_, _, _, _, _)
IterHtml(tpl, at, loopValue, loopIndex, env) ==
    IF tpl = <<>> THEN <<>>
    ELSE IterSeg(Head(tpl), at, loopValue, loopIndex, env)
            \o IterHtml(Tail(tpl), at, loopValue, loopIndex, env)

\* (mutant) render() reads the element's present content as its template
RenderSourceFromDom(orig, dom) == dom.out \o dom.tpl

\* the template render() instantiates: this._originalTemplate
RenderSource(orig, dom) == orig

\* (mutant) _storeTemplate reads the element's present content on every call
StoreLoopTemplateFromContent(orig, dom) == dom.out \o dom.tpl

\* _storeTemplate
StoreLoopTemplate(orig, dom) == IF orig # <<>> THEN orig ELSE dom.tpl

ErrLoopNoTemplate == <<Text("for-loop: Missing template with matching loopid")>>

\* the global array holds the first n fruits
Fruits(n) == [j \in 1..n |-> Str(j)]

\* the templates of the pages: "${i + 1}. ${fruit}", "fruit: ${fruit}",
\* "${value}@${index}", "${fruit}{{score}}" and the empty template
LoopTemplates ==
    {<<Local("i", "inc"), Text(". "), Local("fruit", "id")>>,
     <<Text("fruit"), Text(": "), Local("fruit", "id")>>,
     <<Local("value", "id"), Text("@"), Local("index", "id")>>,
     <<Local("fruit", "id"), Global("score", "id")>>,
     <<>>}

\* a loop over the global array, with default start, end and step
ArrayLoops ==
    {[array |-> "fruits", start |-> Absent, end |-> Absent, step |-> Absent,
      valueVar |-> vv, indexVar |-> iv] : vv \in {"null", "fruit"}, iv \in {"null", "i"}}

\* a loop with numeric attributes, with or without an array
NumericLoops ==
    {[array |-> ar, start |-> st, end |-> en, step |-> sp,
      valueVar |-> "null", indexVar |-> "null"] :
        ar \in {"null", "fruits"},
        st \in {Absent, A(0), A(1), A(2)},
        en \in {Absent} \cup {A(n) : n \in 0..MaxEnd},
        sp \in {Absent, A(0), A(1), A(2)}}

InitLoop ==
    /\ lorig = <<>>
    /\ \E t \in LoopTemplates, at \in ArrayLoops \cup NumericLoops :
          /\ at \in NumericLoops \ ArrayLoops
                => t = <<Local("value", "id"), Text("@"), Local("index", "id")>>
          /\ ldom = [out |-> <<>>, tpl |-> t]
          /\ lattr = at
    /\ larr \in {Fruits(n) : n \in 0..MaxArr}
    /\ lattr.array = "null" => larr = <<>>
    /\ IdleG
    /\ lpc = "new"
    /\ lrun = NoRun
    /\ li = 0
    /\ lacc = <<>>
    /\ lits = <<>>
    /\ louts = <<>>
    /\ lgen = 0
    /\ IdleW /\ IdleC /\ IdleT /\ IdleRest

\* this.innerHTML = ...: a finished render
LoopFinished(out, tpl) ==
    /\ ldom' = [out |-> out, tpl |-> tpl]
    /\ louts' = Append(louts, [out |-> out, tpl |-> tpl, gen |-> lgen,
                               its |-> lits, arr |-> larr])
    /\ lpc' = "idle"

\* connectedCallback, up to its call of render()
LoopConnect ==
    /\ lpc = "new"
    /\ lorig' = StoreLoopTemplate(lorig, ldom)
    /\ lpc' = "render"
    /\ UNCHANGED <<ldom, lattr, larr, lrun, li, lacc, lits, louts, lgen>>
    /\ UNCHANGED othersL

\* rerender(), or a setState() that reaches the element
LoopRerender ==
    /\ lpc = "idle"
    /\ Len(louts) < MaxRenders
    /\ lpc' = "render"
    /\ UNCHANGED <<lorig, ldom, lattr, larr, lrun, li, lacc, lits, louts, lgen>>
    /\ UNCHANGED othersL

\* page code pushes to the global array, or pops from it, between two renders
SetArray ==
    /\ lpc = "idle"
    /\ lattr.array = "fruits"
    /\ lgen < Len(louts)
    /\ Len(louts) < MaxRenders
    /\ \E n \in {Len(larr) - 1, Len(larr) + 1} :
          /\ n \in 0..MaxArr
          /\ larr' = Fruits(n)
    /\ lgen' = lgen + 1
    /\ UNCHANGED <<lorig, ldom, lattr, lpc, lrun, li, lacc, lits, louts>>
    /\ UNCHANGED othersL

\* render() up to its for statement
LoopBegin ==
    /\ lpc = "render"
    /\ LET o == StoreLoopTemplate(lorig, ldom)
       IN  /\ lorig' = o
           /\ lits' = <<>>
           /\ lacc' = <<>>
           /\ IF o = <<>>
              THEN /\ ldom' = [out |-> ErrLoopNoTemplate, tpl |-> <<>>]
                   /\ louts' = Append(louts,
                         [out |-> ErrLoopNoTemplate, tpl |-> <<>>, gen |-> lgen,
                          its |-> <<>>, arr |-> larr])
                   /\ lpc' = "idle"
                   /\ UNCHANGED <<lrun, li>>
              ELSE /\ lrun' = RunOf(lattr, larr)
                   /\ li' = RunOf(lattr, larr).start
                   /\ lpc' = "iter"
                   /\ UNCHANGED <<ldom, louts>>
    /\ UNCHANGED <<lattr, larr, lgen>>
    /\ UNCHANGED othersL

\* i < Math.min(end, array.length)
LoopGoesOn == li < Min(lrun.end, Len(lrun.array))

\* one turn of the for statement
LoopIter ==
    /\ lpc = "iter"
    /\ LoopGoesOn
    /\ li + MaxBelow >= 0
    /\ LET loopValue == ArrAt(lrun.array, li)
       IN  /\ lacc' = lacc \o IterHtml(RenderSource(lorig, ldom), lattr, loopValue, li, globals)
           /\ lits' = Append(lits, [i |-> li, v |-> loopValue])
    /\ li' = li + lrun.step
    /\ UNCHANGED <<lorig, ldom, lattr, larr, lpc, lrun, louts, lgen>>
    /\ UNCHANGED othersL

\* the for statement is over: innerHTML = parseTemplate(outputHtml) + templateCopy
LoopEnd ==
    /\ lpc = "iter"
    /\ ~LoopGoesOn
    /\ LoopFinished(ParseTemplate(lacc, globals), lorig)
    /\ UNCHANGED <<lorig, lattr, larr, lrun, li, lacc, lits, lgen>>
    /\ UNCHANGED othersL

NextLoop ==
    \/ LoopConnect
    \/ LoopRerender
    \/ SetArray
    \/ LoopBegin
    \/ LoopIter
    \/ LoopEnd

SpecLoop == InitLoop /\ [][NextLoop]_vars

\* a loop over the global array with a negative start or a negative step
SignedLoops ==
    {[array |-> "fruits", start |-> st, end |-> en, step |-> sp,
      valueVar |-> "null", indexVar |-> "null"] :
        st \in {Absent, A(-2), A(-1), A(1)},
        en \in {Absent, A(2)},
        sp \in {Absent, A(-1), A(2)}}

\* a page with one such loop and a global array that is not empty
InitLoopSigned ==
    /\ lorig = <<>>
    /\ ldom = [out |-> <<>>, tpl |-> <<Local("value", "id"), Text("@"), Local("index", "id")>>]
    /\ lattr \in SignedLoops
    /\ larr \in {Fruits(n) : n \in 1..MaxArr}
    /\ IdleG
    /\ lpc = "new"
    /\ lrun = NoRun
    /\ li = 0
    /\ lacc = <<>>
    /\ lits = <<>>
    /\ louts = <<>>
    /\ lgen = 0
    /\ IdleW /\ IdleC /\ IdleT /\ IdleRest

SpecLoopSigned == InitLoopSigned /\ [][NextLoop]_vars

\* C31 (as stated): every text segment of the template, which lies outside
\* the ${...} placeholders, stands unchanged in the output of an iteration.
C31_TextOutsidePlaceholdersKept ==
    (lpc = "iter" /\ Len(lits) >= 1) =>
        \A j \in 1..Len(lorig) : lorig[j].k = "text" => InSeq(lorig[j], lacc)

\* C37 (as stated): the for statement of render() terminates: every turn
\* brings the index closer to the bound Math.min(end, array.length) at which
\* the statement ends.
C37_ForStatementTerminates ==
    [][(lpc = "iter" /\ lpc' = "iter" /\ lits' # lits) =>
          Min(lrun.end, Len(lrun.array)) - li' < Min(lrun.end, Len(lrun.array)) - li]_vars

\* C30 (as stated): while render() iterates an array that is not empty, every
\* index at which it has read an element lies in 0..length-1.
C30_ArrayIndexWithinBounds ==
    (lpc = "iter" /\ lattr.array # "null" /\ EvalArray(lattr, larr) # <<>>) =>
        \A j \in 1..Len(lits) : lits[j].i \in 0..(Len(lrun.array) - 1)

\* a page with one for-loop, or with one condition-block
InitRender == InitLoop \/ InitCond

NextRender == NextLoop \/ NextCond

SpecRender == InitRender /\ [][NextRender]_vars

(***************************************************************************)
(* StateElement: connectedCallback, render.  Its template is a string with  *)
(* {{...}} placeholders, as parseTemplate reads it.                         *)
(***************************************************************************)
StateTemplates ==
    {<<Text("a"), Global("score", "id")>>, <<Global("x", "id")>>,
     <<Global("nope", "id"), Text("a")>>, <<>>}

ErrStateNoTemplate == <<Text("state-element: Missing template with matching stateId")>>

InitStateEl ==
    /\ eorig = <<>>
    /\ edom \in {[out |-> <<>>, tpl |-> t] : t \in StateTemplates}
    /\ epc = "new"
    /\ eouts = <<>>
    /\ egen = 0
    /\ globals \in Envs
    /\ IdleW /\ IdleC /\ IdleL /\ IdleT /\ IdleP /\ IdleS /\ IdleI

\* StateElement._storeTemplate
StoreStateTemplate(orig, dom) == IF orig # <<>> THEN orig ELSE dom.tpl

\* connectedCallback, up to its call of render()
StateConnect ==
    /\ epc = "new"
    /\ eorig' = StoreStateTemplate(eorig, edom)
    /\ epc' = "render"
    /\ UNCHANGED <<edom, eouts, egen, globals>>
    /\ UNCHANGED othersE

\* a setState() that reaches the element
StateRerender ==
    /\ epc = "idle"
    /\ Len(eouts) < MaxRenders
    /\ epc' = "render"
    /\ UNCHANGED <<eorig, edom, eouts, egen, globals>>
    /\ UNCHANGED othersE

\* page code changes a watched global between two renders
StateSetData ==
    /\ epc = "idle"
    /\ egen < Len(eouts)
    /\ Len(eouts) < MaxRenders
    /\ \E e \in Envs \ {globals} : globals' = e
    /\ egen' = egen + 1
    /\ UNCHANGED <<eorig, edom, epc, eouts>>
    /\ UNCHANGED othersE

\* StateElement.render
StateRender ==
    /\ epc = "render"
    /\ LET o == StoreStateTemplate(eorig, edom)
           out == IF o = <<>> THEN ErrStateNoTemplate ELSE ParseTemplate(o, globals)
       IN  /\ eorig' = o
           /\ edom' = [out |-> out, tpl |-> o]
           /\ eouts' = Append(eouts, [out |-> out, tpl |-> o, gen |-> egen, env |-> globals])
    /\ epc' = "idle"
    /\ UNCHANGED <<egen, globals>>
    /\ UNCHANGED othersE

NextStateEl == StateConnect \/ StateRerender \/ StateSetData \/ StateRender

\* a page with one for-loop, one condition-block or one state-element
InitCaptured == InitLoop \/ InitCond \/ InitStateEl

NextCaptured == NextLoop \/ NextCond \/ NextStateEl

SpecCaptured == InitCaptured /\ [][NextCaptured]_vars

(***************************************************************************)
(* Claims about the loop renderer and about repeated renders                *)
(***************************************************************************)
\* C5: renders of a for-loop or of a condition-block that follow each other
\* with no change of the underlying data in between put the same content in
\* the element, whatever their number.
C5_RenderIdempotent ==
    /\ \A i \in 1..(Len(louts) - 1) :
          louts[i + 1].gen = louts[i].gen =>
              /\ louts[i + 1].out = louts[i].out
              /\ louts[i + 1].tpl = louts[i].tpl
    /\ \A i \in 1..(Len(outs) - 1) :
          outs[i + 1].gen = outs[i].gen =>
              /\ outs[i + 1].out = outs[i].out
              /\ outs[i + 1].tpl = outs[i].tpl

\* a for-loop rendered MaxRenders times over the same two or more elements
C5_Witness ==
    /\ Len(louts) = MaxRenders
    /\ louts[MaxRenders].gen = louts[MaxRenders - 1].gen
    /\ Len(louts[MaxRenders].its) >= 2
    /\ louts[MaxRenders].out # <<>>

\* C8 (as stated): a for-loop with no array, start = s, end = e, s <= e, and
\* the default step renders e - s + 1 iterations, the loop values being
\* s, s + 1, ..., e in that order.
C8_RangeIsInclusive ==
    \A r \in 1..Len(louts) :
        (/\ lattr.array = "null"
         /\ lattr.start.set /\ lattr.end.set /\ ~lattr.step.set
         /\ lattr.start.n <= lattr.end.n) =>
            /\ Len(louts[r].its) = lattr.end.n - lattr.start.n + 1
            /\ \A j \in 1..Len(louts[r].its) :
                  louts[r].its[j].v = Num(lattr.start.n + j - 1)

\* the captured template with its local placeholders evaluated, the value
\* variable bound to v and the index variable to i; the global placeholders
\* as parseTemplate leaves them
RECURSIVE Instance(_, _, _, _, _)
Instance(tpl, at, v, i, env) ==
    IF tpl = <<>> THEN <<>>
    ELSE LET seg == Head(tpl)
             name == IF seg.w = ValueVar(at) THEN "loopValue"
                     ELSE IF seg.w = IndexVar(at) THEN "loopIndex" ELSE seg.w
             result == UnsafeEvalIn(name, seg.op, LoopContext(v, i), env)
             piece == IF seg.k = "local"
                      THEN (IF result # U THEN <<StringOf(result)>> ELSE <<>>)
                      ELSE Substitute(seg, env)
         IN  piece \o Instance(Tail(tpl), at, v, i, env)

RECURSIVE Instances(_, _, _, _, _)
Instances(tpl, at, arr, i, env) ==
    IF i >= Len(arr) THEN <<>>
    ELSE Instance(tpl, at, arr[i + 1], i, env) \o Instances(tpl, at, arr, i + 1, env)

\* C9 (as stated): over an array of n elements, with default start, end and
\* step, the output is the concatenation in index order 0..n-1, with no
\* separator, of the captured template instantiated once per element.
C9_OutputIsConcatenation ==
    \A r \in 1..Len(louts) :
        (lattr \in ArrayLoops /\ lorig # <<>>) =>
            louts[r].out = Instances(lorig, lattr, louts[r].arr, 0, globals)


(***************************************************************************)
(* unsafeEval, _evaluateCondition and createRangeArray, each called on its  *)
(* own with arguments drawn from a small set.                               *)
(***************************************************************************)
EvalExprs == {"1", "true", "x", "score", "undef", "nope", "boom", "(",
              "weird", "loopValue", "loopIndex"}

\* the context argument by name
ContextOf(name) ==
    CASE name = "loop" -> LoopContext(Str(1), 0)
      [] name = "null" -> NullContext
      [] OTHER -> NoContext

InitEval ==
    /\ pfn = "eval"
    /\ ppc = "call"
    /\ pev \in [e : EvalExprs, op : {"id", "inc"}, ctx : {"none", "loop", "null"}]
    /\ pat = NoAttrs
    /\ prg = [start |-> 0, end |-> 0, step |-> 0, i |-> 0, result |-> <<>>]
    /\ pret = [raised |-> FALSE, v |-> U]
    /\ globals \in Envs

\* unsafeEval(expression, context)
CallUnsafeEval ==
    /\ pfn = "eval"
    /\ ppc = "call"
    /\ pret' = Outcome(RawEval(pev.e, pev.op, ContextOf(pev.ctx), globals))
    /\ ppc' = "done"
    /\ UNCHANGED <<pfn, pev, pat, prg>>
    /\ UNCHANGED othersP

\* C11: unsafeEval never passes an error on to its caller; an evaluation that
\* fails (a syntax error, a reference error, an exception of the expression or
\* of reading the context) returns undefined.
C11_EvaluatorNeverRaises ==
    (pfn = "eval" /\ ppc = "done") =>
        /\ ~pret.raised
        /\ RawEval(pev.e, pev.op, ContextOf(pev.ctx), globals).thrown => pret.v = U

\* a call whose expression threw has returned
C11_Witness ==
    /\ pfn = "eval" /\ ppc = "done"
    /\ pev.e = "boom" /\ pev.ctx = "loop"
    /\ pret = [raised |-> FALSE, v |-> U]


\* the expressions of an if-node's value attribute and of its operand
CondValues == {"x", "score", "1", "nope", "boom"}
CondOperands == {"1", "90", "score", "nope"}

\* the if-nodes _evaluateCondition is called with: a value attribute and at
\* most one of eq, neq, gt, lt, gte, lte
CondArgs ==
    {AT(v) : v \in CondValues}
        \cup {[AT(v) EXCEPT ![mode] = c] :
                 v \in CondValues, c \in CondOperands,
                 mode \in {"eq", "neq", "gt", "lt", "gte", "lte"}}
        \cup {[AT(v) EXCEPT ![m1] = c1, ![m2] = c2] :
                 v \in {"score", "1"}, c1 \in {"1", "90"}, c2 \in {"1", "90"},
                 m1 \in {"eq", "neq", "gt"}, m2 \in {"neq", "lt", "gte", "lte"}}

InitEvaluateCondition ==
    /\ pfn = "cond"
    /\ ppc = "call"
    /\ pev = [e |-> "", op |-> "id", ctx |-> "none"]
    /\ pat \in CondArgs
    /\ prg = [start |-> 0, end |-> 0, step |-> 0, i |-> 0, result |-> <<>>]
    /\ pret = [raised |-> FALSE, v |-> U]
    /\ globals \in Envs

\* this._evaluateCondition(ifEl)
CallEvaluateCondition ==
    /\ pfn = "cond"
    /\ ppc = "call"
    /\ pret' = [raised |-> FALSE, v |-> Bool(EvaluateCondition(pat, globals))]
    /\ ppc' = "done"
    /\ UNCHANGED <<pfn, pev, pat, prg>>
    /\ UNCHANGED othersP

\* the attribute the comparison reads: the first of eq, neq, gt, lt, gte, lte
\* that is present
OperandOf(at) ==
    IF at.eq # "null" THEN at.eq
    ELSE IF at.neq # "null" THEN at.neq
    ELSE IF at.gt # "null" THEN at.gt
    ELSE IF at.lt # "null" THEN at.lt
    ELSE IF at.gte # "null" THEN at.gte
    ELSE at.lte

\* the evaluation of the expression e throws inside unsafeEval
EvalFails(e, env) == e # "null" /\ RawEval(e, "id", NoContext, env).thrown

\* C14 (as stated): when the evaluation of an if-node's value expression or of
\* its comparison operand throws, _evaluateCondition returns false, whichever
\* of eq, neq, gt, lt, gte, lte or plain truthiness the node uses.
C14_FailedEvaluationIsFalse ==
    (/\ pfn = "cond" /\ ppc = "done"
     /\ EvalFails(pat.value, globals) \/ EvalFails(OperandOf(pat), globals)) =>
        pret.v = Bool(FALSE)

\* the comparison modes in the order of their tests
Modes == <<"eq", "neq", "gt", "lt", "gte", "lte">>

\* the first mode whose attribute is present, "truthy" when there is none
ModeOf(at) ==
    LET present == {i \in 1..Len(Modes) : at[Modes[i]] # "null"}
    IN  IF present = {} THEN "truthy"
        ELSE Modes[CHOOSE i \in present : \A j \in present : i <= j]

\* what one mode says of a value and an operand
Compare(mode, value, compare) ==
    CASE mode = "eq" -> value = compare
      [] mode = "neq" -> value # compare
      [] mode = "truthy" -> Truthy(value)
      [] OTHER -> Related(value, compare, mode)

\* C27: _evaluateCondition returns what one mode says: the mode of the first
\* attribute present in the order eq, neq, gt, lt, gte, lte, applied to the
\* value and that attribute's operand, or the truthiness of the value when
\* none is present; the attributes later in the order have no effect.
C27_FirstPresentModeDecides ==
    (pfn = "cond" /\ ppc = "done") =>
        pret.v = Bool(Compare(ModeOf(pat), UnsafeEval(pat.value, globals),
                              IF ModeOf(pat) = "truthy" THEN U
                              ELSE UnsafeEval(pat[ModeOf(pat)], globals)))

\* score gt 1 holds and score lte 1 does not: the result is that of gt
C27_Witness ==
    /\ pfn = "cond" /\ ppc = "done"
    /\ pat.value = "score" /\ pat.gt = "1" /\ pat.lte = "1" /\ pat.eq = "null"
    /\ pret.v = Bool(TRUE)

(***************************************************************************)
(* createRangeArray, one turn of its for statement at a time.               *)
(***************************************************************************)
\* largest magnitude of start and end, and of step
MaxRange == 3
MaxStep == 2

Arr(sq) == [t |-> "arr", v |-> sq]

InitRange ==
    /\ pfn = "range"
    /\ ppc = "call"
    /\ pev = [e |-> "", op |-> "id", ctx |-> "none"]
    /\ pat = NoAttrs
    /\ \E a \in -MaxRange..MaxRange, b \in -MaxRange..MaxRange, c \in -MaxStep..MaxStep :
           prg = [start |-> a, end |-> b, step |-> c, i |-> 0, result |-> <<>>]
    /\ pret = [raised |-> FALSE, v |-> U]
    /\ IdleG

\* const result = []; let i = start
RangeBegin ==
    /\ pfn = "range"
    /\ ppc = "call"
    /\ prg' = [prg EXCEPT !.i = prg.start, !.result = <<>>]
    /\ ppc' = "loop"
    /\ UNCHANGED <<pfn, pev, pat, pret>>
    /\ UNCHANGED othersP

\* (mutant) the end is excluded
RangeGoesOnExclusive(r) ==
    \/ r.step > 0 /\ r.i < r.end
    \/ r.step < 0 /\ r.i > r.end

\* step > 0: i <= end; step < 0: i >= end; step = 0: neither for statement
RangeGoesOn(r) ==
    \/ r.step > 0 /\ r.i <= r.end
    \/ r.step < 0 /\ r.i >= r.end

\* result.push(i); i += step
RangeStep ==
    /\ pfn = "range"
    /\ ppc = "loop"
    /\ RangeGoesOn(prg)
    /\ prg' = [prg EXCEPT !.result = Append(prg.result, Num(prg.i)),
                          !.i = prg.i + prg.step]
    /\ UNCHANGED <<pfn, ppc, pev, pat, pret>>
    /\ UNCHANGED othersP

\* return result
RangeReturn ==
    /\ pfn = "range"
    /\ ppc = "loop"
    /\ ~RangeGoesOn(prg)
    /\ pret' = [raised |-> FALSE, v |-> Arr(prg.result)]
    /\ ppc' = "done"
    /\ UNCHANGED <<pfn, pev, pat, prg>>
    /\ UNCHANGED othersP

InitPure ==
    /\ IdleW /\ IdleC /\ IdleL /\ IdleT /\ IdleS /\ IdleE /\ IdleI
    /\ InitEval \/ InitEvaluateCondition \/ InitRange

NextPure ==
    \/ CallUnsafeEval
    \/ CallEvaluateCondition
    \/ RangeBegin
    \/ RangeStep
    \/ RangeReturn

SpecPure == InitPure /\ [][NextPure]_vars

Abs(n) == IF n < 0 THEN -n ELSE n

\* start, start + step, ..., up to and including end when it is reached
RangeExpected(start, end, step) ==
    IF step > 0 /\ start <= end
    THEN [k \in 1..((end - start) \div step + 1) |-> Num(start + (k - 1) * step)]
    ELSE IF step < 0 /\ start >= end
    THEN [k \in 1..((start - end) \div (-step) + 1) |-> Num(start + (k - 1) * step)]
    ELSE <<>>

\* C19: createRangeArray(start, end, step) ends after at most |end - start| + 1
\* turns of its loop, for every integer start, end and step, and returns
\* start, start + step, ... up to and including end when end is reached:
\* ascending for step > 0, descending for step < 0, empty when step = 0 or
\* start lies past end in the direction of step.
C19_RangeTerminatesInclusive ==
    pfn = "range" =>
        /\ ppc = "loop" =>
              /\ Len(prg.result) <= Abs(prg.end - prg.start) + 1
              /\ RangeGoesOn(prg) => Len(prg.result) <= Abs(prg.end - prg.start)
        /\ ppc = "done" =>
              pret.v = Arr(RangeExpected(prg.start, prg.end, prg.step))

\* createRangeArray(-3, 3, 2) has returned -3, -1, 1, 3
C19_Witness ==
    /\ pfn = "range" /\ ppc = "done"
    /\ prg.start = -3 /\ prg.end = 3 /\ prg.step = 2
    /\ pret.v = Arr(<<Num(-3), Num(-1), Num(1), Num(3)>>)


(***************************************************************************)
(* IncludeTemplate: connectedCallback, rerender and the async render().  A  *)
(* render() call runs up to its first await, is resumed when fetch settles  *)
(* and again when response.text() settles; other calls run in between.      *)
(* The fragments hold no relative URL, so convertRelativeToAbsolute leaves  *)
(* them as they are.                                                        *)
(***************************************************************************)
\* what the server answers with: "b", and "a{{score}}"
Bodies == {<<Text("b")>>, <<Text("a"), Global("score", "id")>>}

IncludeAttrs == [file : BOOLEAN, scoped : BOOLEAN]

ErrNoFile == <<Text("include-template requires \"file\" attribute")>>

InitInclude ==
    /\ iattr \in IncludeAttrs
    /\ inner = NoContent
    /\ shadow = NoShadow
    /\ overlay = FALSE
    /\ ipend = [r \in 1..MaxFetch |-> "none"]
    /\ idone = <<>>
    /\ IdleW /\ IdleG /\ IdleC /\ IdleL /\ IdleT /\ IdleP /\ IdleS /\ IdleE

Done(r, how) == [r |-> r, how |-> how]

\* the render() calls made so far
Started == {r \in 1..MaxFetch : ipend[r] # "none"}

\* (mutant) the catch block does not hide the loader
OverlayAfterCatchKept == overlay

\* loader.hide() in the catch block
OverlayAfterCatch == FALSE

\* (mutant) a render() that is not the latest call leaves the content alone
WrittenIfLatest(cur, r, html) == IF r = Cardinality(Started) THEN html ELSE cur

\* this._shadowRoot.innerHTML = html, this.innerHTML = html
Written(cur, r, html) == html

\* render() up to 'await fetch(file)': connectedCallback, rerender() or a
\* setState with templates on
IncludeRender ==
    /\ Cardinality(Started) < MaxFetch
    /\ LET r == Cardinality(Started) + 1
       IN  IF ~iattr.file
           THEN /\ inner' = Content("error", r, ErrNoFile)
                /\ ipend' = [ipend EXCEPT ![r] = "done"]
                /\ idone' = Append(idone, Done(r, "nofile"))
                /\ UNCHANGED overlay
           ELSE /\ overlay' = TRUE
                /\ ipend' = [ipend EXCEPT ![r] = "fetch"]
                /\ UNCHANGED <<inner, idone>>
    /\ UNCHANGED <<iattr, shadow, globals>>
    /\ UNCHANGED othersI

\* the catch block: this.innerHTML = 'Error: ' + error.message
IncludeCatch(r, message) ==
    /\ inner' = Content("error", r, <<Text("Error: "), Text(message)>>)
    /\ overlay' = OverlayAfterCatch
    /\ ipend' = [ipend EXCEPT ![r] = "done"]
    /\ idone' = Append(idone, Done(r, "caught"))
    /\ UNCHANGED <<iattr, shadow, globals>>
    /\ UNCHANGED othersI

\* fetch resolves with an OK response: up to 'await response.text()'
FetchOk(r) ==
    /\ ipend[r] = "fetch"
    /\ ipend' = [ipend EXCEPT ![r] = "text"]
    /\ UNCHANGED <<iattr, inner, shadow, overlay, idone, globals>>
    /\ UNCHANGED othersI

\* fetch resolves with a response that is not OK: throw new Error(...)
FetchNotOk(r) ==
    /\ ipend[r] = "fetch"
    /\ IncludeCatch(r, "Failed to load")

\* fetch rejects
FetchFails(r) ==
    /\ ipend[r] = "fetch"
    /\ IncludeCatch(r, "fetch rejected")

\* response.text() rejects
TextFails(r) ==
    /\ ipend[r] = "text"
    /\ IncludeCatch(r, "text rejected")

\* response.text() resolves: the rest of the try block
TextOk(r, body) ==
    /\ ipend[r] = "text"
    /\ LET html == Content("html", r, ParseTemplate(body, globals))
       IN  IF iattr.scoped
           THEN /\ shadow' = Written(shadow, r, html)
                /\ UNCHANGED inner
           ELSE /\ inner' = Written(inner, r, html)
                /\ UNCHANGED shadow
    /\ overlay' = FALSE
    /\ ipend' = [ipend EXCEPT ![r] = "done"]
    /\ idone' = Append(idone, Done(r, "ok"))
    /\ UNCHANGED <<iattr, globals>>
    /\ UNCHANGED othersI

\* the pending call r is resumed
Settle(r) ==
    \/ FetchOk(r)
    \/ FetchNotOk(r)
    \/ FetchFails(r)
    \/ TextFails(r)
    \/ \E body \in Bodies : TextOk(r, body)

NextInclude ==
    \/ IncludeRender
    \/ \E r \in 1..MaxFetch : FetchOk(r)
    \/ \E r \in 1..MaxFetch : FetchNotOk(r)
    \/ \E r \in 1..MaxFetch : FetchFails(r)
    \/ \E r \in 1..MaxFetch : TextFails(r)
    \/ \E r \in 1..MaxFetch, body \in Bodies : TextOk(r, body)

SpecInclude == InitInclude /\ [][NextInclude]_vars

\* every fetch and every response.text() settles
SpecIncludeFair == SpecInclude /\ \A r \in 1..MaxFetch : WF_vars(Settle(r))

\* C34: a render() call that has started its fetch returns, whatever the fetch
\* and response.text() settle with; in the step in which it returns the
\* loader's overlay is removed, and when it returns through the catch block
\* the element's innerHTML is the error text of that call.
C34_FetchEndsWithLoaderCleared ==
    /\ \A r \in 1..MaxFetch : (ipend[r] \in {"fetch", "text"}) ~> (ipend[r] = "done")
    /\ [][\A r \in 1..MaxFetch :
             (ipend[r] \in {"fetch", "text"} /\ ipend'[r] = "done") =>
                 /\ ~overlay'
                 /\ idone' = Append(idone, idone'[Len(idone')])
                 /\ idone'[Len(idone')].r = r
                 /\ idone'[Len(idone')].how = "caught" =>
                        (inner'.k = "error" /\ inner'.by = r)]_vars

\* the second call has failed with a response that is not OK while the first
\* one still waits: the overlay is gone, the error text is shown
C34_Witness ==
    /\ ipend[1] = "fetch" /\ ipend[2] = "done" /\ idone = <<Done(2, "caught")>>
    /\ inner = Content("error", 2, <<Text("Error: "), Text("Failed to load")>>) /\ ~overlay

\* the last of the returned render() calls that ended in one of the ways hows,
\* 0 when there is none
LastDone(hows) ==
    LET at == {k \in 1..Len(idone) : idone[k].how \in hows}
    IN  IF at = {} THEN 0 ELSE idone[CHOOSE k \in at : \A l \in at : l <= k].r

\* C35: the content of the include-template is what the render() call that
\* returned last has written, in whatever order the calls were made: the
\* fetched fragment (in the shadow root when scoped, else in innerHTML) is
\* that of the call whose response.text() settled last, and an error text is
\* that of the call that failed last.
C35_LastCompletedRenderWins ==
    LET ok == LastDone({"ok"})
        failed == LastDone({"caught", "nofile"})
    IN  IF iattr.scoped
        THEN /\ shadow.by = ok
             /\ inner.by = failed
        ELSE inner.by = LastDone({"ok", "caught", "nofile"})

\* render() was called twice; the fetch of the second call came back first,
\* and the content is the fragment of the first call
C35_Witness ==
    /\ ~iattr.scoped /\ ipend[1] = "done" /\ ipend[2] = "done" /\ ipend[3] = "none"
    /\ idone = <<Done(2, "ok"), Done(1, "ok")>>
    /\ inner.k = "html" /\ inner.by = 1

(***************************************************************************)
(* setState.  The page is the list of the document's nodes that setState    *)
(* can reach, in document order; slog lists what one call did, in order: a  *)
(* node's render() or evaluation as <<block, position of the node>>, and    *)
(* the loader's show and hide as <<"loader", 1>> and <<"loader", 0>>.       *)
(***************************************************************************)
Node(cat, id) == [cat |-> cat, id |-> id]

Pages ==
    {<<Node("datajs", ""), Node("innerhtml", ""), Node("loop", "a"), Node("loop", "b"),
       Node("dataloop", ""), Node("include", ""), Node("cond", "a"), Node("cond", "b"),
       Node("state", "a"), Node("state", "b")>>,
     <<Node("cond", "a"), Node("loop", "a"), Node("state", "a")>>,
     <<Node("loop", "a"), Node("datajs", "")>>,
     <<Node("cond", "a"), Node("state", "a"), Node("state", ""), Node("state", "b")>>}

\* the boolean options of the calls: the defaults, everything, nothing, and
\* only the two categories that are off by default
Profiles ==
    {NoOptions,
     [NoOptions EXCEPT !.states = TRUE, !.templates = TRUE],
     [NoOptions EXCEPT !.showloader = FALSE, !.datajs = FALSE, !.innerhtml = FALSE,
                       !.loops = FALSE, !.dataloops = FALSE, !.conditions = FALSE],
     [NoOptions EXCEPT !.states = TRUE, !.templates = TRUE, !.datajs = FALSE,
                       !.innerhtml = FALSE, !.loops = FALSE, !.dataloops = FALSE,
                       !.conditions = FALSE]}

Options ==
    {[o EXCEPT !.loopid = l, !.ifid = c, !.stateId = t] :
        o \in Profiles, l \in {"", "a"}, c \in {"", "a"}, t \in {"", "a"}}

\* (mutant) the condition-blocks are refreshed before the for-loops
BlocksConditionsEarly ==
    <<"loopid", "ifid", "stateId", "datajs", "innerhtml", "conditions", "loops",
      "dataloops", "templates", "states">>

\* the if statements of setState's try block, in order
Blocks ==
    <<"loopid", "ifid", "stateId", "datajs", "innerhtml", "loops", "dataloops",
      "templates", "conditions", "states">>

\* the test of a block
Enabled(b, o) ==
    CASE b = "loopid" -> o.loopid # ""
      [] b = "ifid" -> o.ifid # ""
      [] b = "stateId" -> o.stateId # ""
      [] b = "datajs" -> o.datajs
      [] b = "innerhtml" -> o.innerhtml
      [] b = "loops" -> o.loops
      [] b = "dataloops" -> o.dataloops
      [] b = "templates" -> o.templates
      [] b = "conditions" -> o.conditions
      [] OTHER -> o.states

\* the block's querySelectorAll matches the node (renderDataLoops for
\* "dataloops")
Selects(b, o, n) ==
    CASE b = "loopid" -> n.cat = "loop" /\ n.id = o.loopid
      [] b = "ifid" -> n.cat = "cond" /\ n.id = o.ifid
      [] b = "stateId" -> n.cat = "state" /\ n.id = o.stateId
      [] b = "datajs" -> n.cat = "datajs"
      [] b = "innerhtml" -> n.cat = "innerhtml"
      [] b = "loops" -> n.cat = "loop"
      [] b = "dataloops" -> n.cat = "dataloop"
      [] b = "templates" -> n.cat = "include"
      [] b = "conditions" -> n.cat = "cond"
      [] OTHER -> n.cat = "state"

\* the node's render() throws: a state-element without stateId attribute
\* (id ""); the other elements catch in their render(), and the data-js and
\* data-innerhtml callbacks in the forEach body
Throws(n) == n.cat = "state" /\ n.id = ""

\* the forEach of the block ends with an exception
BlockThrows(b, o, pg) == \E j \in 1..Len(pg) : Selects(b, o, pg[j]) /\ Throws(pg[j])

\* what a block does, in document order, up to the first render() that throws
RECURSIVE Refreshed(_, _, _, _)
Refreshed(b, o, pg, j) ==
    IF j > Len(pg) THEN <<>>
    ELSE IF Selects(b, o, pg[j]) /\ Throws(pg[j]) THEN <<<<"threw", j>>>>
    ELSE (IF Selects(b, o, pg[j]) THEN <<<<b, j>>>> ELSE <<>>)
             \o Refreshed(b, o, pg, j + 1)

\* the block after block i
AfterBlock(i, o) == i + 1

InitState ==
    /\ IdleW /\ IdleG /\ IdleC /\ IdleL /\ IdleT /\ IdleP /\ IdleE /\ IdleI
    /\ page \in Pages
    /\ sopt \in Options
    /\ spc = 0
    /\ slog = <<>>

\* setState(options): if (showloader) loader.show()
SetStateCall ==
    /\ spc = 0
    /\ page # <<>>
    /\ slog' = IF sopt.showloader THEN <<<<"loader", 1>>>> ELSE <<>>
    /\ spc' = 1
    /\ UNCHANGED <<page, sopt>>
    /\ UNCHANGED othersS

\* one if statement of the try block
SetStateBlock ==
    /\ spc \in 1..Len(Blocks)
    /\ slog' = IF Enabled(Blocks[spc], sopt)
               THEN slog \o Refreshed(Blocks[spc], sopt, page, 1)
               ELSE slog
    /\ spc' = IF Enabled(Blocks[spc], sopt) /\ BlockThrows(Blocks[spc], sopt, page)
              THEN Len(Blocks) + 1
              ELSE AfterBlock(spc, sopt)
    /\ UNCHANGED <<page, sopt>>
    /\ UNCHANGED othersS

\* if (showloader) loader.hide(), at the end of the try block or in the catch,
\* and the return
SetStateReturn ==
    /\ spc = Len(Blocks) + 1
    /\ slog' = IF sopt.showloader THEN Append(slog, <<"loader", 0>>) ELSE slog
    /\ spc' = Len(Blocks) + 2
    /\ UNCHANGED <<page, sopt>>
    /\ UNCHANGED othersS

NextState == SetStateCall \/ SetStateBlock \/ SetStateReturn

SpecState == InitState /\ [][NextState]_vars

\* the call names exactly one of loopid, ifid, stateId
ScopedTo(o) ==
    CASE o.loopid # "" /\ o.ifid = "" /\ o.stateId = "" -> "loopid"
      [] o.loopid = "" /\ o.ifid # "" /\ o.stateId = "" -> "ifid"
      [] o.loopid = "" /\ o.ifid = "" /\ o.stateId # "" -> "stateId"
      [] OTHER -> "none"

\* C12 (as stated): a setState call that names one identifier (loopid, ifid or
\* stateId) renders the nodes of that category with that identifier, once
\* each, and does nothing else: at no point of the call has any other node or
\* any other category been refreshed.
C12_ScopedRefreshesOnlyMatching ==
    (spc > 0 /\ ScopedTo(sopt) # "none") =>
        \A k \in 1..Len(slog) :
            slog[k][1] # "loader" =>
                /\ slog[k][1] = ScopedTo(sopt)
                /\ Selects(ScopedTo(sopt), sopt, page[slog[k][2]])

\* the categories in the order of their refresh
Order ==
    <<"datajs", "innerhtml", "loops", "dataloops", "templates", "conditions", "states">>

RankOf(b) == CHOOSE i \in 1..Len(Order) : Order[i] = b

\* the call names no identifier
Unscoped(o) == o.loopid = "" /\ o.ifid = "" /\ o.stateId = ""

C33_OtherNodesStillRefreshed ==
    spc > Len(Blocks) =>
        \A b \in 1..Len(Blocks), j \in 1..Len(page) :
            (Enabled(Blocks[b], sopt) /\ Selects(Blocks[b], sopt, page[j])
                /\ ~Throws(page[j])) =>
                    \E k \in 1..Len(slog) : slog[k] = <<Blocks[b], j>>


(***************************************************************************)
(* Mutations made by an expression that setState evaluates: the data-js     *)
(* binding  data-js="a[0] = 2"  or  "a = 2"  run through unsafeEval, by      *)
(* page code or by a callback that calls setState.                          *)
(***************************************************************************)
\* how the statement that called unsafeEval goes on: the Error of the trap or
\* of the setter is what the evaluation threw
EvalGuarded(kind, cb, pid) ==
    LET out == Outcome([thrown |-> TRUE, v |-> U])
    IN  /\ lastOp' = [kind |-> kind, trig |-> cb, act |-> activeWatcher,
                      res |-> IF out.raised THEN "self" ELSE "caught", px |-> pid]
        /\ wpc' = IF out.raised THEN ThrowPc ELSE wpc
        /\ budget' = budget - 1
        /\ UNCHANGED <<heap, nObj, trigs, accessor, watchedVars, proxies, proxyCache,
                       scheduledCallbacks, microtasks, activeWatcher,
                       calls, unitMuts, unitNotif, cbMuts, argSnap, wrapLog>>
        /\ UNCHANGED othersW

\* unsafeEval("<wrapper>[key] = value", { element })
EvalSetProp(pid, key, in) ==
    /\ CanMutate
    /\ pid \in 1..Len(proxies)
    /\ CanAlloc(in)
    /\ IF SelfMutation(proxies[pid].cb)
       THEN EvalGuarded("evalset", proxies[pid].cb, pid)
       ELSE SetProp(pid, key, in)

\* unsafeEval("name = value", { element })
EvalRootAssign(name, in) ==
    /\ CanMutate
    /\ accessor[name] # 0
    /\ CanAlloc(in)
    /\ IF SelfMutation(accessor[name])
       THEN EvalGuarded("evalassign", accessor[name], 0)
       ELSE RootAssign(name, in)

NextEvalInCallback ==
    \/ BeginUnit
    \/ EndUnit
    \/ RunMicrotask
    \/ CbEnd
    \/ DrainDone
    \/ \E pid \in 1..Len(proxies), key \in Key : GetProp(pid, key)
    \/ \E pid \in 1..Len(proxies), key \in Key, in \in Inputs : EvalSetProp(pid, key, in)
    \/ \E name \in Names, in \in Inputs : EvalRootAssign(name, in)

SpecEvalInCallback == InitNotify /\ [][NextEvalInCallback]_vars

\* C20 (as stated): a write or a root assignment of a watched variable made by
\* an expression that runs through unsafeEval while the variable's callback is
\* the active watcher ends with the self-mutation error raised out of the
\* evaluation, not with the evaluator's undefined result.
C20_SelfMutationInEvalRaises ==
    (lastOp.kind \in {"evalset", "evalassign"}
        /\ lastOp.act # 0 /\ lastOp.act = lastOp.trig) => lastOp.res = "self"


(***************************************************************************)
(* Claims about the captured template                                       *)
(***************************************************************************)
\* C23: the template a for-loop, a condition-block or a state-element has
\* captured stays what it is over every render and every change of the data;
\* every finished render wrote the captured template back as the template
\* child, and the content a state-element renders is parseTemplate of the
\* captured template.
C23_CapturedTemplateImmutable ==
    [][/\ lorig # <<>> => lorig' = lorig
       /\ ~IsEmpty(corig) => corig' = corig
       /\ eorig # <<>> => eorig' = eorig
       /\ \A r \in 1..Len(louts') : louts'[r].tpl = lorig'
       /\ \A r \in 1..Len(outs') : outs'[r].tpl = corig'
       /\ \A r \in 1..Len(eouts') :
             /\ eouts'[r].tpl = eorig'
             /\ eorig' # <<>> => eouts'[r].out = ParseTemplate(eorig', eouts'[r].env)]_vars

\* a state-element rendered twice, the globals changed in between
C23_Witness ==
    /\ Len(eouts) = MaxRenders
    /\ eouts[MaxRenders].gen > eouts[1].gen
    /\ eorig # <<>>
    /\ eouts[MaxRenders].tpl = eouts[1].tpl
    /\ eouts[MaxRenders].out # eouts[1].out

====
